---- MODULE Spec2Model ----
(***************************************************************************)
(* A model of gtarfile: the numeric/string codec (tarfile/utils.go), the   *)
(* header record and its serialisation (tarfile/tarinfo.go) and the        *)
(* archive handle TarFile (NewTarFile, AddFile, Next, GetMembers,          *)
(* GetMember, Close).                                                      *)
(*                                                                         *)
(* Go strings and byte slices are sequences of bytes (0..255).  A Go call  *)
(* that can fail is an operator returning a record whose field k is "ok",  *)
(* "err" (an error value, kind in e) or "panic" (a run-time panic).        *)
(***************************************************************************)
EXTENDS Integers, Sequences, FiniteSets, TLC

\* ------------------------------------------------------------------------
\* constants.go
\* ------------------------------------------------------------------------
NUL == 0
BLOCKSIZE == 512
RECORDSIZE == BLOCKSIZE * 20
LENGTH_NAME == 100
LENGTH_LINK == 100
LENGTH_PREFIX == 155
\* "ustar  \x00"
GNU_MAGIC == <<117, 115, 116, 97, 114, 32, 32, 0>>
\* "ustar\x00\x00"
POSIX_MAGIC == <<117, 115, 116, 97, 114, 0, 0>>

REGTYPE == <<48>>
AREGTYPE == <<0>>
LNKTYPE == <<49>>
SYMTYPE == <<50>>
CHRTYPE == <<51>>
BLKTYPE == <<52>>
DIRTYPE == <<53>>
FIFOTYPE == <<54>>
CONTTYPE == <<55>>
GNUTYPE_LONGNAME == <<76>>
GNUTYPE_LONGLINK == <<75>>
GNUTYPE_SPARSE == <<83>>
XHDTYPE == <<120>>
XGLTYPE == <<103>>

USTAR_FORMAT == 0
GNU_FORMAT == 1
PAX_FORMAT == 2
DEFAULT_FORMAT == PAX_FORMAT

REGULAR_TYPES == {REGTYPE, AREGTYPE, CONTTYPE, GNUTYPE_SPARSE}
GNU_TYPES == {GNUTYPE_LONGNAME, GNUTYPE_LONGLINK, GNUTYPE_SPARSE}

\* ------------------------------------------------------------------------
\* Go values
\* ------------------------------------------------------------------------
\* The nil pointer / nil interface value.
Nil == [nil |-> TRUE]

Ok(v) == [k |-> "ok", v |-> v]
Err(e) == [k |-> "err", e |-> e]
Panic(e) == [k |-> "panic", e |-> e]

\* The byte '/'.
Slash == 47

\* make([]byte, n)
Zeros(n) == [i \in 1..n |-> 0]

RECURSIVE Pow(_, _)
Pow(b, e) == IF e = 0 THEN 1 ELSE b * Pow(b, e - 1)

\* Go's truncated integer division and remainder (divmod in utils.go).
GoDiv(a, b) == IF a >= 0 THEN a \div b ELSE -((-a) \div b)
GoMod(a, b) == a - b * GoDiv(a, b)

divmod(a, b) == <<GoDiv(a, b), GoMod(a, b)>>

\* strings.HasSuffix(s, "/") and strings.TrimSuffix(s, "/")
HasSuffixSlash(s) == Len(s) > 0 /\ s[Len(s)] = Slash
TrimSuffixSlash(s) == IF HasSuffixSlash(s) THEN SubSeq(s, 1, Len(s) - 1) ELSE s

\* bytes.IndexByte(s, b), 1-based, 0 when absent.
IndexByteFrom(s, b, i) ==
  LET at == {j \in i..Len(s) : s[j] = b}
  IN  IF at = {} THEN 0 ELSE CHOOSE j \in at : \A k \in at : j <= k

IndexByte(s, b) == IndexByteFrom(s, b, 1)

\* ------------------------------------------------------------------------
\* utils.go
\* ------------------------------------------------------------------------
nts(s) ==
  LET p == IndexByte(s, NUL)
  IN  IF p # 0 THEN SubSeq(s, 1, p - 1) ELSE s

\* unicode.IsSpace on the rune that starts at s[i] / ends at s[i]: the width
\* in bytes of a white-space rune there, 0 when there is none.
AsciiSpace == {9, 10, 11, 12, 13, 32}

Space2 == {<<194, 133>>, <<194, 160>>}

Space3 ==
  {<<225, 154, 128>>, <<226, 128, 168>>, <<226, 128, 169>>,
   <<226, 128, 175>>, <<226, 129, 159>>, <<227, 128, 128>>}
  \cup {<<226, 128, b>> : b \in 128..138}

LeadSpace(s) ==
  IF Len(s) >= 1 /\ s[1] \in AsciiSpace THEN 1
  ELSE IF Len(s) >= 2 /\ SubSeq(s, 1, 2) \in Space2 THEN 2
  ELSE IF Len(s) >= 3 /\ SubSeq(s, 1, 3) \in Space3 THEN 3
  ELSE 0

TrailSpace(s) ==
  LET n == Len(s)
  IN  IF n >= 1 /\ s[n] \in AsciiSpace THEN 1
      ELSE IF n >= 2 /\ SubSeq(s, n - 1, n) \in Space2 THEN 2
      ELSE IF n >= 3 /\ SubSeq(s, n - 2, n) \in Space3 THEN 3
      ELSE 0

RECURSIVE TrimLeft(_)
TrimLeft(s) ==
  IF LeadSpace(s) = 0 THEN s
  ELSE TrimLeft(SubSeq(s, LeadSpace(s) + 1, Len(s)))

RECURSIVE TrimRight(_)
TrimRight(s) ==
  IF TrailSpace(s) = 0 THEN s
  ELSE TrimRight(SubSeq(s, 1, Len(s) - TrailSpace(s)))

\* strings.TrimSpace
TrimSpace(s) == TrimRight(TrimLeft(s))

\* The value of a string of octal digits, most significant first.
RECURSIVE OctalValue(_, _)
OctalValue(s, acc) ==
  IF s = <<>> THEN acc
  ELSE OctalValue(Tail(s), acc * 8 + (s[1] - 48))

\* strconv.ParseInt(s, 8, 64): an optional sign, then octal digits only.
\* The callers pass fields of at most 12 bytes, whose value is below 8^12,
\* so the int64 range error of ParseInt cannot arise.
ParseInt8(s) ==
  LET signed == Len(s) >= 1 /\ s[1] \in {43, 45}
      digs == IF signed THEN Tail(s) ELSE s
      mag == OctalValue(digs, 0)
      val == IF signed /\ s[1] = 45 THEN -mag ELSE mag
  IN  IF digs = <<>> \/ \E i \in 1..Len(digs) : digs[i] \notin 48..55
        THEN Err("syntax")
      ELSE Ok(val)

\* n = (n << 8) + int64(s[i]) over s[2..].  A field of at most 12 bytes
\* holds at most 88 bits after the marker byte; the fields of the headers
\* examined here hold values below 2^31.
RECURSIVE Base256(_, _, _)
Base256(s, i, n) ==
  IF i > Len(s) THEN n
  ELSE Base256(s, i + 1, n * 256 + s[i])

nti(s) ==
  IF s[1] = 128 \/ s[1] = 255
    THEN LET signed(n) == Ok(IF s[1] = 255 THEN -n ELSE n)
         IN  signed(Base256(s, 2, 0))
  ELSE LET parsed(p) == IF p.k = "err" THEN Err("InvalidHeaderError") ELSE p
           parse(str) == IF str = <<>> THEN Ok(0) ELSE parsed(ParseInt8(str))
       IN  parse(TrimSpace(nts(s)))

\* The octal digits of n >= 0, least significant last, no padding.
RECURSIVE OctDigits(_)
OctDigits(n) ==
  IF n < 8 THEN <<48 + n>>
  ELSE Append(OctDigits(n \div 8), 48 + (n % 8))

\* fmt.Sprintf("%0*o", w, n) for n >= 0.
FmtOctal(n, w) ==
  LET d == OctDigits(n)
  IN  IF Len(d) >= w THEN d ELSE [i \in 1..(w - Len(d)) |-> 48] \o d

\* The big-endian base-256 digits written by the loop of itn: buf[i] =
\* byte(n & 0xFF); n >>= 8, for i = digits-1 down to 1, on n >= 0 or on the
\* two's-complement value left by n = -n.
RECURSIVE BigEndian(_, _)
BigEndian(n, cnt) ==
  IF cnt = 0 THEN <<>>
  ELSE Append(BigEndian((n - (n % 256)) \div 256, cnt - 1), n % 256)

\* A range test that admits one octal digit more than the field holds.
FitsOctalWide(n, digits) == n >= 0 /\ Len(OctDigits(n)) <= digits

\* 0 <= n && n < int64(math.Pow(8, float64(digits-1))): n has at most
\* digits-1 octal digits.
FitsOctal(n, digits) == n >= 0 /\ Len(OctDigits(n)) <= digits - 1

\* -int64(math.Pow(256, d)) <= n && n < int64(math.Pow(256, d)) with
\* d = digits-1.  For d >= 8 the power exceeds the int64 range and the
\* float-to-integer conversion is implementation-specific: amd64 yields the
\* minimum int64 (whose negation is itself), arm64 saturates at the maximum.
InBase256Range(n, digits, arch) ==
  IF digits - 1 <= 3 THEN -Pow(256, digits - 1) <= n /\ n < Pow(256, digits - 1)
  ELSE IF digits - 1 <= 7 THEN TRUE
  ELSE arch = "arm64"

itn(n, digits, format, arch) ==
  IF FitsOctal(n, digits)
    THEN Ok(Append(FmtOctal(n, digits - 1), NUL))
  ELSE IF format = GNU_FORMAT /\ InBase256Range(n, digits, arch)
    THEN Ok(<<(IF n >= 0 THEN 128 ELSE 255)>>
            \o BigEndian((IF n >= 0 THEN n ELSE -n), digits - 1))
  ELSE Err("overflow in number field")

stn(s, length) ==
  LET b == IF Len(s) > length THEN SubSeq(s, 1, length) ELSE s
  IN  b \o Zeros(length - Len(b))

\* The sum of buf[lo..hi] (1-based), leaving out the bytes of buf[148:156].
RECURSIVE SumBytes(_, _, _)
SumBytes(buf, lo, hi) ==
  IF lo > hi THEN 0
  ELSE IF lo = hi THEN (IF lo >= 149 /\ lo < 157 THEN 0 ELSE buf[lo])
  ELSE LET mid == (lo + hi) \div 2
       IN  SumBytes(buf, lo, mid) + SumBytes(buf, mid + 1, hi)

\* A checksum that also leaves out the type flag buf[156].
calcChecksumSansType(buf) == 256 + SumBytes(buf, 1, Len(buf)) - buf[157]

\* unsigned := int64(256), plus every byte outside the checksum field.
calcChecksum(buf) == 256 + SumBytes(buf, 1, Len(buf))

\* ------------------------------------------------------------------------
\* State
\* ------------------------------------------------------------------------
VARIABLES
  goarch,   \* the build target, which fixes out-of-range float conversions
  tf,       \* the TarFile handle (Nil before one is open)
  status,   \* "running", or how the calling goroutine stopped
  op,       \* the last call made and what it returned
  hist      \* what the caller has done so far (observation only)

vars == <<goarch, tf, status, op, hist>>

GoArchs == {"amd64", "arm64"}

\* ------------------------------------------------------------------------
\* tarinfo.go: the header record
\* ------------------------------------------------------------------------
\* A nil slice is the empty sequence.
\* time.Unix(sec, nsec)
TimeUnix(sec, nsec) == [sec |-> sec, nsec |-> nsec]

\* An empty map[string]string.
EmptyMap == [x \in {} |-> <<>>]

NewTarInfo(name) ==
  [Name |-> name, Mode |-> 420, UID |-> 0, GID |-> 0, Size |-> 0,
   Mtime |-> TimeUnix(0, 0), Chksum |-> 0, Type |-> REGTYPE,
   Linkname |-> <<>>, Uname |-> <<>>, Gname |-> <<>>,
   DevMajor |-> 0, DevMinor |-> 0, Offset |-> 0, OffsetData |-> 0,
   PaxHeaders |-> EmptyMap, Sparse |-> <<>>]

IsReg(ti) == ti.Type \in REGULAR_TYPES
IsDir(ti) == ti.Type = DIRTYPE

\* A value stored in a map[string]interface{}: its dynamic type and value.
StrV(v) == [t |-> "string", v |-> v]
IntV(v) == [t |-> "int", v |-> v]
Int64V(v) == [t |-> "int64", v |-> v]

\* info[key].(typ) panics when the key is absent (nil interface) or holds a
\* value of another dynamic type.
Asserts(info, key, typ) == key \in DOMAIN info /\ info[key].t = typ

\* info[key] = val
Put(info, key, val) == (key :> val) @@ info

GetInfo(ti) ==
  [name |-> StrV(IF ti.Type = DIRTYPE /\ ~HasSuffixSlash(ti.Name)
                  THEN Append(ti.Name, Slash) ELSE ti.Name),
   mode |-> Int64V(ti.Mode % 4096),
   uid |-> IntV(ti.UID),
   gid |-> IntV(ti.GID),
   size |-> Int64V(ti.Size),
   mtime |-> Int64V(ti.Mtime.sec),
   chksum |-> IntV(ti.Chksum),
   type |-> StrV(ti.Type),
   linkname |-> StrV(ti.Linkname),
   uname |-> StrV(ti.Uname),
   gname |-> StrV(ti.Gname),
   devmajor |-> IntV(ti.DevMajor),
   devminor |-> IntV(ti.DevMinor)]

\* The reads of info made by createHeader, in program order: the key, the
\* asserted dynamic type, and for a numeric field its width (0 for a string).
HeaderReads(hasDeviceFields) ==
  (IF hasDeviceFields
     THEN <<[key |-> "devmajor", typ |-> "int", digits |-> 8],
            [key |-> "devminor", typ |-> "int", digits |-> 8]>>
     ELSE <<>>)
  \o <<[key |-> "type", typ |-> "string", digits |-> 0],
       [key |-> "name", typ |-> "string", digits |-> 0],
       [key |-> "mode", typ |-> "int64", digits |-> 8],
       [key |-> "uid", typ |-> "int", digits |-> 8],
       [key |-> "gid", typ |-> "int", digits |-> 8],
       [key |-> "size", typ |-> "int64", digits |-> 12],
       [key |-> "mtime", typ |-> "int64", digits |-> 12],
       [key |-> "linkname", typ |-> "string", digits |-> 0],
       [key |-> "magic", typ |-> "string", digits |-> 0],
       [key |-> "uname", typ |-> "string", digits |-> 0],
       [key |-> "gname", typ |-> "string", digits |-> 0],
       [key |-> "prefix", typ |-> "string", digits |-> 0]>>

\* The first read that stops createHeader: a failed type assertion panics,
\* a numeric field that itn cannot encode returns its error.
RECURSIVE FirstFault(_, _, _, _, _)
FirstFault(info, format, arch, reads, i) ==
  IF i > Len(reads) THEN Ok(TRUE)
  ELSE IF ~Asserts(info, reads[i].key, reads[i].typ)
    THEN Panic("interface conversion")
  ELSE IF reads[i].digits # 0
          /\ itn(info[reads[i].key].v, reads[i].digits, format, arch).k = "err"
    THEN Err("overflow in number field")
  ELSE FirstFault(info, format, arch, reads, i + 1)

\* buf with buf[148:156] replaced by fmt.Sprintf("%06o\x00 ", chksum).
WithChecksum(b) ==
  LET c == FmtOctal(calcChecksum(b), 6) \o <<NUL, 32>>
      out == SubSeq(b, 1, 148) \o c \o SubSeq(b, 157, Len(b))
  IN  SubSeq(out, 1, BLOCKSIZE)

createHeader(info, format, arch) ==
  LET hasDeviceFields ==
        "type" \in DOMAIN info /\ info["type"] \in {StrV(CHRTYPE), StrV(BLKTYPE)}
      num(key, digits) == itn(info[key].v, digits, format, arch).v
      dev(key) == IF hasDeviceFields THEN num(key, 8) ELSE stn(<<>>, 8)
      padded(parts) == IF Len(parts) < BLOCKSIZE
                         THEN parts \o Zeros(BLOCKSIZE - Len(parts))
                       ELSE parts
      block == WithChecksum(padded(
                 stn(info["name"].v, 100)
                 \o num("mode", 8) \o num("uid", 8) \o num("gid", 8)
                 \o num("size", 12) \o num("mtime", 12)
                 \o <<32, 32, 32, 32, 32, 32, 32, 32>>
                 \o info["type"].v
                 \o stn(info["linkname"].v, 100)
                 \o info["magic"].v
                 \o stn(info["uname"].v, 32)
                 \o stn(info["gname"].v, 32)
                 \o dev("devmajor") \o dev("devminor")
                 \o stn(info["prefix"].v, 155)))
      unless(fault) == IF fault.k # "ok" THEN fault ELSE Ok(block)
  IN  unless(FirstFault(info, format, arch, HeaderReads(hasDeviceFields), 1))

createPayload(payload) ==
  LET remainder == GoMod(Len(payload), BLOCKSIZE)
  IN  IF remainder > 0 THEN payload \o Zeros(BLOCKSIZE - remainder) ELSE payload

\* "././@LongLink"
LongLinkName == <<46, 47, 46, 47, 64, 76, 111, 110, 103, 76, 105, 110, 107>>

createGnuLongHeader(name, typ, arch) ==
  LET nameBytes == Append(name, NUL)
      info == [name |-> StrV(LongLinkName), type |-> StrV(typ),
               size |-> Int64V(Len(nameBytes)), magic |-> StrV(GNU_MAGIC)]
      withPayload(header) ==
        IF header.k # "ok" THEN header
        ELSE Ok(header.v \o createPayload(nameBytes))
  IN  withPayload(createHeader(info, USTAR_FORMAT, arch))

\* The positions of '/' in name, ascending.
SlashPositions(name) == {i \in 1..Len(name) : name[i] = Slash}

\* The first split point, scanning the '/' of name from the left, whose
\* prefix has at most LENGTH_PREFIX bytes and whose rest at most LENGTH_NAME.
posixSplitName(name) ==
  LET good == {i \in SlashPositions(name) :
                 i - 1 <= LENGTH_PREFIX /\ Len(name) - i <= LENGTH_NAME}
      at == CHOOSE i \in good : \A j \in good : i <= j
  IN  IF good = {} THEN Err("name is too long")
      ELSE Ok([prefix |-> SubSeq(name, 1, at - 1),
               name |-> SubSeq(name, at + 1, Len(name))])

createUstarHeader(info0, arch) ==
  LET info == Put(info0, "magic", StrV(POSIX_MAGIC))
      long == Len(info["name"].v) > LENGTH_NAME
      header(split) ==
        IF Len(info["linkname"].v) > LENGTH_LINK
          THEN Err("linkname is too long")
        ELSE IF long /\ split.k # "ok" THEN split
        ELSE createHeader(
               IF long
                 THEN Put(Put(info, "prefix", StrV(split.v.prefix)),
                          "name", StrV(split.v.name))
               ELSE info,
               USTAR_FORMAT, arch)
  IN  header(posixSplitName(info["name"].v))

createGnuHeader(info0, arch) ==
  LET info == Put(info0, "magic", StrV(GNU_MAGIC))
      long(s, limit, typ) ==
        IF Len(s) > limit THEN createGnuLongHeader(s, typ, arch) ELSE Ok(<<>>)
      joined(longLink, longName, header) ==
        IF longLink.k # "ok" THEN longLink
        ELSE IF longName.k # "ok" THEN longName
        ELSE IF header.k # "ok" THEN header
        ELSE Ok(longLink.v \o longName.v \o header.v)
  IN  joined(long(info["linkname"].v, LENGTH_LINK, GNUTYPE_LONGLINK),
             long(info["name"].v, LENGTH_NAME, GNUTYPE_LONGNAME),
             createHeader(info, GNU_FORMAT, arch))

\* strconv.Itoa / strconv.FormatInt(n, 10)
RECURSIVE DecDigits(_)
DecDigits(n) ==
  IF n < 10 THEN <<48 + n>>
  ELSE Append(DecDigits(n \div 10), 48 + (n % 10))

Itoa(n) == IF n < 0 THEN <<45>> \o DecDigits(-n) ELSE DecDigits(n)

\* "18446744073709551615", the largest uint64.
MaxUint64Text ==
  <<49, 56, 52, 52, 54, 55, 52, 52, 48, 55, 51, 55, 48, 57, 53, 53, 49, 54,
    49, 53>>

\* a <= b for two digit strings of equal length.
RECURSIVE DigitsLeq(_, _, _)
DigitsLeq(a, b, i) ==
  IF i > Len(a) THEN TRUE
  ELSE IF a[i] # b[i] THEN a[i] < b[i]
  ELSE DigitsLeq(a, b, i + 1)

RECURSIVE StripZeros(_)
StripZeros(s) ==
  IF Len(s) > 1 /\ s[1] = 48 THEN StripZeros(Tail(s)) ELSE s

\* strconv.ParseUint(n, 10, 64) succeeds: decimal digits only, no sign,
\* value below 2^64.
ParsesAsUint(n) ==
  /\ n # <<>>
  /\ \A i \in 1..Len(n) : n[i] \in 48..57
  /\ LET m == StripZeros(n)
     IN  \/ Len(m) < 20
         \/ Len(m) = 20 /\ DigitsLeq(m, MaxUint64Text, 1)

\* The keys of the PAX records, as the bytes written to the archive.
KeyBytes(k) ==
  CASE k = "path" -> <<112, 97, 116, 104>>
    [] k = "linkpath" -> <<108, 105, 110, 107, 112, 97, 116, 104>>
    [] k = "uname" -> <<117, 110, 97, 109, 101>>
    [] k = "gname" -> <<103, 110, 97, 109, 101>>
    [] k = "uid" -> <<117, 105, 100>>
    [] k = "gid" -> <<103, 105, 100>>
    [] k = "size" -> <<115, 105, 122, 101>>
    [] k = "mtime" -> <<109, 116, 105, 109, 101>>
    [] k = "comment" -> <<99, 111, 109, 109, 101, 110, 116>>

\* n := 0; for { p := l + len(strconv.Itoa(n)); if p == n { break }; n = p }
RECURSIVE RecordLength(_, _)
RecordLength(l, n) ==
  LET p == l + Len(Itoa(n))
  IN  IF p = n THEN n ELSE RecordLength(l, p)

\* fmt.Sprintf("%d %s=%s\n", n, k, v)
PaxRecord(k, v) ==
  LET l == Len(KeyBytes(k)) + Len(v) + 3
  IN  Itoa(RecordLength(l, 0)) \o <<32>> \o KeyBytes(k) \o <<61>> \o v
      \o <<10>>

RECURSIVE PaxRecords(_, _, _)
PaxRecords(paxHeaders, order, i) ==
  IF i > Len(order) THEN <<>>
  ELSE PaxRecord(order[i], paxHeaders[order[i]])
       \o PaxRecords(paxHeaders, order, i + 1)

\* "21 hdrcharset=BINARY\n"
HdrCharsetBinary ==
  <<50, 49, 32, 104, 100, 114, 99, 104, 97, 114, 115, 101, 116, 61, 66, 73,
    78, 65, 82, 89, 10>>

\* "././@PaxHeader"
PaxHeaderName ==
  <<46, 47, 46, 47, 64, 80, 97, 120, 72, 101, 97, 100, 101, 114>>

\* order is the order in which the range over the map visits its keys.
createPaxGenericHeader(paxHeaders, typ, order, arch) ==
  LET binary == \E k \in DOMAIN paxHeaders : ~ParsesAsUint(paxHeaders[k])
      records == (IF binary THEN HdrCharsetBinary ELSE <<>>)
                 \o PaxRecords(paxHeaders, order, 1)
      info == [name |-> StrV(PaxHeaderName), type |-> StrV(typ),
               size |-> Int64V(Len(records)), magic |-> StrV(POSIX_MAGIC)]
      withPayload(header) ==
        IF header.k # "ok" THEN header
        ELSE Ok(header.v \o createPayload(records))
  IN  withPayload(createHeader(info, USTAR_FORMAT, arch))

\* One order in which a range over the map m may visit its keys.
KeyOrder(m) ==
  CHOOSE o \in [1..Cardinality(DOMAIN m) -> DOMAIN m] :
    \A i, j \in DOMAIN o : i # j => o[i] # o[j]

\* The four string fields: info key, PAX key, field width.
PaxStringFields ==
  <<[name |-> "name", hname |-> "path", length |-> LENGTH_NAME],
    [name |-> "linkname", hname |-> "linkpath", length |-> LENGTH_LINK],
    [name |-> "uname", hname |-> "uname", length |-> 32],
    [name |-> "gname", hname |-> "gname", length |-> 32]>>

RECURSIVE PaxStrings(_, _, _)
PaxStrings(info, paxHeaders, i) ==
  IF i > Len(PaxStringFields) THEN paxHeaders
  ELSE LET f == PaxStringFields[i]
           n == info[f.name].v
       IN  IF f.hname \in DOMAIN paxHeaders
             THEN PaxStrings(info, paxHeaders, i + 1)
           ELSE IF ParsesAsUint(n) \/ Len(n) > f.length
             THEN PaxStrings(info, Put(paxHeaders, f.hname, n), i + 1)
           ELSE PaxStrings(info, paxHeaders, i + 1)

\* The numeric fields visited by the range loop (mtime is skipped there).
PaxNumericFields ==
  <<[name |-> "uid", digits |-> 8], [name |-> "gid", digits |-> 8],
    [name |-> "size", digits |-> 12]>>

\* The loop body for the fields whose info[name].(int) holds: an overflowing
\* value is zeroed in info and, unless present, recorded in paxHeaders.
RECURSIVE PaxNumbers(_, _, _)
PaxNumbers(info, paxHeaders, i) ==
  IF i > Len(PaxNumericFields) THEN [info |-> info, pax |-> paxHeaders]
  ELSE LET f == PaxNumericFields[i]
           val == info[f.name].v
       IN  IF ~FitsOctal(val, f.digits)
             THEN PaxNumbers(
                    Put(info, f.name, IntV(0)),
                    IF f.name \in DOMAIN paxHeaders THEN paxHeaders
                    ELSE Put(paxHeaders, f.name, Itoa(val)),
                    i + 1)
           ELSE PaxNumbers(info, paxHeaders, i + 1)

createPaxHeader(ti, info0, arch) ==
  LET info1 == Put(info0, "magic", StrV(POSIX_MAGIC))
      \* every order of the range loop reaches each of uid, gid and size
      assertsInt == \A i \in 1..Len(PaxNumericFields) :
                      Asserts(info1, PaxNumericFields[i].name, "int")
      generic(pax) ==
        IF DOMAIN pax # {}
          THEN createPaxGenericHeader(pax, XHDTYPE, KeyOrder(pax), arch)
        ELSE Ok(<<>>)
      joined(paxBuf, header) ==
        IF paxBuf.k # "ok" THEN paxBuf
        ELSE IF header.k # "ok" THEN header
        ELSE Ok(paxBuf.v \o header.v)
      afterNumbers(nums) ==
        LET mtime == nums.info["mtime"].v
            info2 == IF ~FitsOctal(mtime, 12)
                       THEN Put(nums.info, "mtime", Int64V(0)) ELSE nums.info
            pax2 == IF ~FitsOctal(mtime, 12) /\ "mtime" \notin DOMAIN nums.pax
                      THEN Put(nums.pax, "mtime", Itoa(mtime)) ELSE nums.pax
        IN  IF ~Asserts(nums.info, "mtime", "int64")
              THEN Panic("interface conversion")
            ELSE joined(generic(pax2), createHeader(info2, USTAR_FORMAT, arch))
  IN  IF ~assertsInt THEN Panic("interface conversion")
      ELSE afterNumbers(PaxNumbers(info1, PaxStrings(info1, ti.PaxHeaders, 1),
                                   1))

ToBuf(ti, format, arch) ==
  LET info == GetInfo(ti)
  IN  CASE format = USTAR_FORMAT -> createUstarHeader(info, arch)
        [] format = GNU_FORMAT -> createGnuHeader(info, arch)
        [] format = PAX_FORMAT -> createPaxHeader(ti, info, arch)
        [] OTHER -> Err("invalid format")

\* The Go slice buf[a:b].
Slice(buf, a, b) == SubSeq(buf, a + 1, b)

\* A sparse loop that reads the pair at pos and no further one.
SparseStructsFirst(buf, pos, i, acc) ==
  LET pair(offset, numbytes) ==
        IF offset.k # "ok" THEN offset
        ELSE IF numbytes.k # "ok" THEN numbytes
        ELSE IF offset.v = 0 /\ numbytes.v = 0 THEN Ok(acc)
        ELSE Ok(Append(acc, <<offset.v, numbytes.v>>))
  IN  pair(nti(Slice(buf, pos, pos + 12)),
           nti(Slice(buf, pos + 12, pos + 24)))

\* The (offset, numbytes) pairs of a GNU sparse header, read from pos: up to
\* 4 - i more of them, stopping at the first (0, 0) pair or at a field that
\* does not parse.
RECURSIVE SparseStructs(_, _, _, _)
SparseStructs(buf, pos, i, acc) ==
  LET pair(offset, numbytes) ==
        IF offset.k # "ok" THEN offset
        ELSE IF numbytes.k # "ok" THEN numbytes
        ELSE IF offset.v = 0 /\ numbytes.v = 0 THEN Ok(acc)
        ELSE SparseStructs(buf, pos + 24, i + 1,
                           Append(acc, <<offset.v, numbytes.v>>))
  IN  IF i >= 4 THEN Ok(acc)
      ELSE pair(nti(Slice(buf, pos, pos + 12)),
                nti(Slice(buf, pos + 12, pos + 24)))

\* The numeric fields decoded by FromBuf, in program order.
NumericFields ==
  <<[at |-> 148, to |-> 156], [at |-> 100, to |-> 108],
    [at |-> 108, to |-> 116], [at |-> 116, to |-> 124],
    [at |-> 124, to |-> 136], [at |-> 136, to |-> 148],
    [at |-> 329, to |-> 337], [at |-> 337, to |-> 345]>>

FromBuf(buf) ==
  LET typ0 == Slice(buf, 156, 157)
      name0 == nts(Slice(buf, 0, 100))
      prefix == nts(Slice(buf, 345, 500))
      typ == IF typ0 = AREGTYPE /\ HasSuffixSlash(name0) THEN DIRTYPE
             ELSE typ0
      isExtended == buf[483] # 0
      name1 == IF typ = DIRTYPE THEN TrimSuffixSlash(name0) ELSE name0
      name2 == IF prefix # <<>> /\ typ \notin GNU_TYPES
                 THEN prefix \o <<Slash>> \o name1 ELSE name1
      \* num[i] is the i-th field of NumericFields as nti returns it
      decoded(num, structs, origSize) ==
        LET sparse == typ = GNUTYPE_SPARSE
                      /\ (Len(structs.v) > 0 \/ isExtended)
        IN  IF num[1].k # "ok" THEN Err("InvalidHeaderError")
            ELSE IF num[1].v # calcChecksum(buf) THEN Err("InvalidHeaderError")
            ELSE IF \E i \in 2..Len(NumericFields) : num[i].k # "ok"
              THEN Err("InvalidHeaderError")
            ELSE IF typ = GNUTYPE_SPARSE /\ structs.k # "ok"
              THEN Err("InvalidHeaderError")
            ELSE IF typ = GNUTYPE_SPARSE /\ origSize.k # "ok"
              THEN Err("InvalidHeaderError")
            ELSE Ok([Name |-> name2,
                     Mode |-> num[2].v,
                     UID |-> num[3].v,
                     GID |-> num[4].v,
                     Size |-> IF sparse THEN origSize.v ELSE num[5].v,
                     Mtime |-> TimeUnix(num[6].v, 0),
                     Chksum |-> num[1].v,
                     Type |-> typ,
                     Linkname |-> nts(Slice(buf, 157, 257)),
                     Uname |-> nts(Slice(buf, 265, 297)),
                     Gname |-> nts(Slice(buf, 297, 329)),
                     DevMajor |-> num[7].v,
                     DevMinor |-> num[8].v,
                     Offset |-> 0, OffsetData |-> 0,
                     PaxHeaders |-> EmptyMap,
                     Sparse |-> IF sparse THEN structs.v ELSE <<>>])
  IN  IF Len(buf) = 0 THEN Err("EmptyHeaderError")
      ELSE IF Len(buf) # BLOCKSIZE THEN Err("TruncatedHeaderError")
      ELSE IF \A i \in 1..BLOCKSIZE : buf[i] = NUL THEN Err("EOFHeaderError")
      ELSE decoded([i \in 1..Len(NumericFields) |->
                      nti(Slice(buf, NumericFields[i].at, NumericFields[i].to))],
                   SparseStructs(buf, 386, 0, <<>>),
                   nti(Slice(buf, 483, 495)))

\* ------------------------------------------------------------------------
\* The underlying io.ReadWriteSeeker: an *os.File opened by NewTarFile or a
\* stream supplied by the caller.  data is its content, pos its cursor and
\* open is false once an *os.File has been closed.
\* ------------------------------------------------------------------------
FileOf(data) == [data |-> data, pos |-> 0, open |-> TRUE]

Min(a, b) == IF a < b THEN a ELSE b

\* bufio's default buffer: gzip and bzip2 read a source that is not an
\* io.ByteReader through a bufio.Reader.
BufioSize == 4096

\* A readWriteSeeker{r, w}: the stream w with a field z for the decoder r.
\* z.bytes is what r yields, z.at how much of it has been read, z.fed how
\* many bytes r has taken from w, z.hdr the length of the format's header,
\* and z.bad whether r fails at its first Read.  Read goes to r, Seek to w.
Wrapped(f) == "z" \in DOMAIN f

\* r.Read: r takes what it needs from w, a buffer at a time from w's
\* cursor, and yields decoded bytes.
ReadWrapped(f, n) ==
  LET got == SubSeq(f.z.bytes, f.z.at + 1, Min(f.z.at + n, Len(f.z.bytes)))
      need == IF f.z.bad THEN 1 ELSE f.z.hdr + f.z.at + Len(got)
      short == IF need > f.z.fed THEN need - f.z.fed ELSE 0
      pull == Min(Len(f.data) - Min(f.pos, Len(f.data)),
                  BufioSize * ((short + BufioSize - 1) \div BufioSize))
      fed == [f EXCEPT !.pos = f.pos + pull, !.z.fed = f.z.fed + pull]
  IN  IF f.z.bad THEN [f |-> fed, buf |-> <<>>, err |-> "corrupt input"]
      ELSE IF got = <<>> THEN [f |-> fed, buf |-> <<>>, err |-> "EOF"]
      ELSE [f |-> [fed EXCEPT !.z.at = f.z.at + Len(got)], buf |-> got,
            err |-> "nil"]

\* f.Read(make([]byte, n)): the bytes read, and err "EOF" when none are left.
Read(f, n) ==
  LET got == SubSeq(f.data, f.pos + 1, Min(f.pos + n, Len(f.data)))
  IN  IF ~f.open THEN [f |-> f, buf |-> <<>>, err |-> "closed"]
      ELSE IF Wrapped(f) THEN ReadWrapped(f, n)
      ELSE IF got = <<>> THEN [f |-> f, buf |-> <<>>, err |-> "EOF"]
      ELSE [f |-> [f EXCEPT !.pos = f.pos + Len(got)], buf |-> got,
            err |-> "nil"]

\* f.Write(p): p replaces the content at the cursor, extending the file.
Write(f, p) ==
  LET n == Len(f.data)
      head == IF f.pos <= n THEN SubSeq(f.data, 1, f.pos)
              ELSE f.data \o Zeros(f.pos - n)
      tail == SubSeq(f.data, f.pos + Len(p) + 1, n)
  IN  IF ~f.open THEN [f |-> f, err |-> "closed"]
      ELSE IF Wrapped(f) THEN [f |-> f, err |-> "write not supported"]
      ELSE [f |-> [f EXCEPT !.data = head \o p \o tail,
                            !.pos = f.pos + Len(p)],
            err |-> "nil"]

\* f.Seek(offset, io.SeekStart)
Seek(f, offset) ==
  IF ~f.open THEN [f |-> f, err |-> "closed"]
  ELSE IF offset < 0 THEN [f |-> f, err |-> "negative position"]
  ELSE [f |-> [f EXCEPT !.pos = offset], err |-> "nil"]

\* pos, _ := r.Seek(0, io.SeekCurrent); return pos
tell(f) == IF f.open THEN f.pos ELSE 0

\* ------------------------------------------------------------------------
\* tarfile.go: the archive handle
\* ------------------------------------------------------------------------
\* check returns an error on a closed handle or in the wrong mode.
check(h, modes) ==
  IF h.closed THEN "TarFile is closed"
  ELSE IF modes # {} /\ h.mode \notin modes THEN "bad operation for mode"
  ELSE "nil"

FromTarFile(h) ==
  LET header(r, ti) ==
        IF ti.k # "ok"
          THEN [h |-> [h EXCEPT !.fileObj = r.f], ti |-> Nil, err |-> ti.e]
        ELSE [h |-> [h EXCEPT !.fileObj = r.f,
                              !.offset = h.offset + BLOCKSIZE],
              ti |-> [ti.v EXCEPT !.Offset = h.offset,
                                  !.OffsetData = h.offset + BLOCKSIZE],
              err |-> "nil"]
      block(r) ==
        IF r.err # "nil"
          THEN [h |-> [h EXCEPT !.fileObj = r.f], ti |-> Nil,
                err |-> IF r.err = "EOF" THEN "EOFHeaderError"
                        ELSE "TruncatedHeaderError"]
        ELSE IF Len(r.buf) # BLOCKSIZE
          THEN [h |-> [h EXCEPT !.fileObj = r.f], ti |-> Nil,
                err |-> "TruncatedHeaderError"]
        ELSE header(r, FromBuf(r.buf))
  IN  block(Read(h.fileObj, BLOCKSIZE))

\* The for loop of next.  loops is TRUE when the loop never exits: with
\* ignoreZeros set, a read at the end of the stream yields EOFHeaderError,
\* the offset is advanced and the same read is repeated.
RECURSIVE nextLoop(_)
nextLoop(h) ==
  LET atEnd == h.fileObj.open /\ h.fileObj.pos >= Len(h.fileObj.data)
      step(r) ==
        LET skip == [r.h EXCEPT !.offset = r.h.offset + BLOCKSIZE]
            done(ti, err) ==
              [h |-> r.h, ti |-> ti, err |-> err, loops |-> FALSE]
        IN  CASE r.err = "nil" -> done(r.ti, "nil")
              [] r.err = "EOFHeaderError" ->
                   IF h.ignoreZeros
                     THEN IF atEnd
                            THEN [h |-> skip, ti |-> Nil, err |-> "nil",
                                  loops |-> TRUE]
                          ELSE nextLoop(skip)
                   ELSE done(Nil, "nil")
              [] r.err = "InvalidHeaderError" ->
                   IF h.ignoreZeros THEN nextLoop(skip)
                   ELSE IF r.h.offset = 0 THEN done(Nil, "ReadError")
                   ELSE done(Nil, "nil")
              [] r.err = "EmptyHeaderError" ->
                   IF r.h.offset = 0 THEN done(Nil, "ReadError")
                   ELSE done(Nil, "nil")
              [] r.err = "TruncatedHeaderError" ->
                   IF r.h.offset = 0 THEN done(Nil, "ReadError")
                   ELSE done(Nil, "nil")
              [] OTHER -> done(Nil, r.err)
  IN  step(FromTarFile(h))

\* A next that reads at the cursor wherever it is.
nextSansResync(h) ==
  LET ret(hh, ti, err) == [h |-> hh, ti |-> ti, err |-> err, loops |-> FALSE]
      found(l) ==
        IF l.loops THEN l
        ELSE IF l.err # "nil" THEN ret(l.h, Nil, l.err)
        ELSE IF l.ti # Nil /\ ~l.h.stream
          THEN ret([l.h EXCEPT !.members = Append(l.h.members, l.ti)],
                   l.ti, "nil")
        ELSE ret([l.h EXCEPT !.loaded = TRUE], l.ti, "nil")
  IN  IF h.firstMember # Nil
        THEN ret([h EXCEPT !.firstMember = Nil], h.firstMember, "nil")
      ELSE found(nextLoop(h))

\* next, the internal implementation of Next.  The result of check is
\* discarded.
next(h) ==
  LET ret(hh, ti, err) == [h |-> hh, ti |-> ti, err |-> err, loops |-> FALSE]
      found(l) ==
        IF l.loops THEN l
        ELSE IF l.err # "nil" THEN ret(l.h, Nil, l.err)
        ELSE IF l.ti # Nil /\ ~l.h.stream
          THEN ret([l.h EXCEPT !.members = Append(l.h.members, l.ti)],
                   l.ti, "nil")
        ELSE ret([l.h EXCEPT !.loaded = TRUE], l.ti, "nil")
      \* the cursor as the Seek to offset-1 and the Read of one byte leave it
      byteRead(byte) ==
        IF byte.err # "nil"
          THEN [stop |-> TRUE,
                ret |-> ret([h EXCEPT !.fileObj = byte.f], Nil, "ReadError")]
        ELSE [stop |-> FALSE, h |-> [h EXCEPT !.fileObj = byte.f]]
      sought(back) ==
        IF back.err # "nil"
          THEN [stop |-> TRUE, ret |-> ret(h, Nil, back.err)]
        ELSE byteRead(Read(back.f, 1))
      positioned ==
        IF h.offset = tell(h.fileObj) THEN [stop |-> FALSE, h |-> h]
        ELSE IF h.offset = 0 THEN [stop |-> TRUE, ret |-> ret(h, Nil, "nil")]
        ELSE sought(Seek(h.fileObj, h.offset - 1))
      scan(p) == IF p.stop THEN p.ret ELSE found(nextLoop(p.h))
  IN  IF h.firstMember # Nil
        THEN ret([h EXCEPT !.firstMember = Nil], h.firstMember, "nil")
      ELSE scan(positioned)

\* load: call next until it fails or returns nil, then set loaded.
RECURSIVE load(_)
load(h) ==
  LET more(n) ==
        IF n.loops THEN [h |-> n.h, loops |-> TRUE]
        ELSE IF n.err # "nil" \/ n.ti = Nil
          THEN [h |-> [n.h EXCEPT !.loaded = TRUE], loops |-> FALSE]
        ELSE load(n.h)
  IN  IF h.stream THEN [h |-> h, loops |-> FALSE] ELSE more(next(h))

\* Close.  Closing the *os.File is deferred, so it also runs when a write
\* fails; here writes fail only on a closed file.
CloseFile(h) ==
  IF h.extFileObj THEN h ELSE [h EXCEPT !.fileObj.open = FALSE]

\* A Close that writes the two zero blocks and does not fill the record.
CloseOpenUnfilled(h) ==
  LET h1 == [h EXCEPT !.closed = TRUE]
      w1 == Write(h1.fileObj, Zeros(BLOCKSIZE * 2))
      h2 == [h1 EXCEPT !.fileObj = w1.f, !.offset = h1.offset + BLOCKSIZE * 2]
  IN  IF h.mode \in {"a", "w", "x"}
        THEN IF w1.err # "nil" THEN [h |-> CloseFile(h1), err |-> w1.err]
             ELSE [h |-> CloseFile(h2), err |-> "nil"]
      ELSE [h |-> CloseFile(h1), err |-> "nil"]

\* Close on a handle that is not closed: set closed, and in the writing
\* modes write two zero blocks and fill the record.
CloseOpen(h) ==
  LET h1 == [h EXCEPT !.closed = TRUE]
      w1 == Write(h1.fileObj, Zeros(BLOCKSIZE * 2))
      h2 == [h1 EXCEPT !.fileObj = w1.f, !.offset = h1.offset + BLOCKSIZE * 2]
      remainder == divmod(h2.offset, RECORDSIZE)[2]
      w2 == Write(h2.fileObj, Zeros(RECORDSIZE - remainder))
  IN  IF h.mode \in {"a", "w", "x"}
        THEN IF w1.err # "nil" THEN [h |-> CloseFile(h1), err |-> w1.err]
             ELSE IF remainder > 0
               THEN [h |-> CloseFile([h2 EXCEPT !.fileObj = w2.f]),
                     err |-> w2.err]
             ELSE [h |-> CloseFile(h2), err |-> "nil"]
      ELSE [h |-> CloseFile(h1), err |-> "nil"]

\* A Close that does not look at closed.
CloseAgain(h) == CloseOpen(h)

\* Close: nothing on a closed handle.
Close(h) == IF h.closed THEN [h |-> h, err |-> "nil"] ELSE CloseOpen(h)

\* io.CopyN(dst, src, n) from a reader holding the bytes src: what is
\* written, and io.EOF when src ends before n bytes.
CopyN(f, src, n) ==
  LET want == IF n < 0 THEN 0 ELSE n
      w == Write(f, SubSeq(src, 1, Min(want, Len(src))))
  IN  IF ~f.open THEN [f |-> f, err |-> "closed"]
      ELSE IF Len(src) < want THEN [f |-> w.f, err |-> "EOF"]
      ELSE [f |-> w.f, err |-> "nil"]

\* An io.Reader over the bytes b.
Reader(b) == [bytes |-> b]

\* AddFile after its test of fileobj: write the header, copy and pad the
\* payload when there is a fileobj, and append the record to the index.
AddFileSourced(h, tarinfo, fileobj, arch) ==
  LET ret(hh, k) == [h |-> hh, k |-> k]
      dm == divmod(tarinfo.Size, BLOCKSIZE)
      blocks == IF dm[2] > 0 THEN dm[1] + 1 ELSE dm[1]
      indexed(hh) ==
        ret([hh EXCEPT !.members = Append(hh.members, tarinfo)], "ok")
      padded(h1, w2) ==
        IF w2.err # "nil" THEN ret([h1 EXCEPT !.fileObj = w2.f], "err")
        ELSE indexed([h1 EXCEPT !.fileObj = w2.f,
                                !.offset = h1.offset + blocks * BLOCKSIZE])
      copied(h1, c) ==
        IF c.err # "nil" THEN ret([h1 EXCEPT !.fileObj = c.f], "err")
        ELSE IF dm[2] > 0
          THEN padded(h1, Write(c.f, Zeros(BLOCKSIZE - dm[2])))
        ELSE indexed([h1 EXCEPT !.fileObj = c.f,
                                !.offset = h1.offset + blocks * BLOCKSIZE])
      payload(h1) ==
        IF fileobj = Nil THEN indexed(h1)
        ELSE copied(h1, CopyN(h1.fileObj, fileobj.bytes, tarinfo.Size))
      written(buf, w1) ==
        IF w1.err # "nil" THEN ret(h, "err")
        ELSE payload([h EXCEPT !.fileObj = w1.f,
                               !.offset = h.offset + Len(buf.v)])
      header(buf) ==
        IF buf.k # "ok" THEN ret(h, buf.k)
        ELSE written(buf, Write(h.fileObj, buf.v))
  IN  header(ToBuf(tarinfo, h.format, arch))

\* An AddFile that does not test fileobj.
AddFileUnsourced(h, tarinfo, fileobj, arch) ==
  AddFileSourced(h, tarinfo, fileobj, arch)

\* AddFile(tarinfo, fileobj); fileobj is Nil or a Reader.
\* The result of check is discarded.
AddFile(h, tarinfo, fileobj, arch) ==
  IF fileobj = Nil /\ IsReg(tarinfo) /\ tarinfo.Size # 0
    THEN [h |-> h, k |-> "err"]
  ELSE AddFileSourced(h, tarinfo, fileobj, arch)

\* GetMembers: lock mu, scan the rest of the archive unless loaded, and
\* return a copy of the index.  sync.RWMutex is not reentrant: Lock on a
\* mutex that is held never returns when the holder is the caller itself.
GetMembers(h) ==
  LET scanned(l) ==
        [h |-> IF l.loops THEN l.h ELSE [l.h EXCEPT !.mu = FALSE],
         blocked |-> FALSE, loops |-> l.loops, members |-> l.h.members]
  IN  IF h.mu
        THEN [h |-> h, blocked |-> TRUE, loops |-> FALSE, members |-> <<>>]
      ELSE IF h.loaded
        THEN [h |-> h, blocked |-> FALSE, loops |-> FALSE,
              members |-> h.members]
      ELSE scanned(load([h EXCEPT !.mu = TRUE]))

\* getMember: ask GetMembers for the index and return its last entry whose
\* Name is name, or Nil.
getMember(h, name) ==
  LET last(g) ==
        LET hits == {i \in 1..Len(g.members) : g.members[i].Name = name}
        IN  [h |-> g.h, blocked |-> g.blocked, loops |-> g.loops,
             ti |-> IF g.blocked \/ g.loops \/ hits = {} THEN Nil
                    ELSE g.members[CHOOSE i \in hits : \A j \in hits : j <= i]]
  IN  last(GetMembers(h))

\* GetMember: lock mu, then getMember.  The result of check is discarded.
GetMember(h, name) ==
  LET unlocked(m) ==
        IF m.blocked \/ m.loops THEN m
        ELSE [m EXCEPT !.h = [m.h EXCEPT !.mu = FALSE]]
  IN  IF h.mu THEN [h |-> h, blocked |-> TRUE, loops |-> FALSE, ti |-> Nil]
      ELSE unlocked(getMember([h EXCEPT !.mu = TRUE], name))

\* A Next that decodes the block at offset although the open has pre-read
\* a member.
NextSansFirst(h) ==
  LET unlocked(n) ==
        [h |-> IF n.loops THEN n.h ELSE [n.h EXCEPT !.mu = FALSE],
         ti |-> n.ti, err |-> n.err, loops |-> n.loops, blocked |-> FALSE]
  IN  IF h.mu
        THEN [h |-> h, ti |-> Nil, err |-> "nil", loops |-> FALSE,
              blocked |-> TRUE]
      ELSE unlocked(next([h EXCEPT !.mu = TRUE, !.firstMember = Nil]))

\* Next: lock mu, then next.
Next(h) ==
  LET unlocked(n) ==
        [h |-> IF n.loops THEN n.h ELSE [n.h EXCEPT !.mu = FALSE],
         ti |-> n.ti, err |-> n.err, loops |-> n.loops, blocked |-> FALSE]
  IN  IF h.mu
        THEN [h |-> h, ti |-> Nil, err |-> "nil", loops |-> FALSE,
              blocked |-> TRUE]
      ELSE unlocked(next([h EXCEPT !.mu = TRUE]))

\* Extraction writes below basePath, a writable directory.  made is what
\* has been created there so far, in order: the name, the kind and, for a
\* regular file, the bytes.  dirs is the set of names at which a directory
\* stood before the call, so that os.OpenFile and os.Symlink fail there;
\* os.MkdirAll of a parent directory succeeds.
IsSym(ti) == ti.Type = SYMTYPE
IsLnk(ti) == ti.Type = LNKTYPE

\* extractFile: seek to the payload, create the target, copy Size bytes.
extractFile(h, member, made, dirs) ==
  LET ret(f, err, m) == [h |-> [h EXCEPT !.fileObj = f], err |-> err,
                         made |-> m]
      file(bytes) == [name |-> member.Name, kind |-> "file", bytes |-> bytes]
      copied(r) ==
        IF Len(r.buf) < member.Size
          THEN ret(r.f, IF r.err = "closed" THEN "closed" ELSE "EOF",
                   Append(made, file(r.buf)))
        ELSE ret(r.f, "nil", Append(made, file(r.buf)))
      sought(s) ==
        IF s.err # "nil" THEN ret(s.f, s.err, made)
        ELSE IF member.Name \in dirs THEN ret(s.f, "is a directory", made)
        ELSE IF member.Size = 0 THEN ret(s.f, "nil", Append(made, file(<<>>)))
        ELSE copied(Read(s.f, member.Size))
  IN  sought(Seek(h.fileObj, member.OffsetData))

\* extractMember: by the type of the member.
extractMember(h, member, made, dirs) ==
  LET ret(err, m) == [h |-> h, err |-> err, made |-> m]
      entry(kind) == [name |-> member.Name, kind |-> kind, bytes |-> <<>>]
  IN  CASE IsDir(member) -> ret("nil", Append(made, entry("dir")))
        [] IsReg(member) -> extractFile(h, member, made, dirs)
        [] IsSym(member) ->
             IF member.Name \in dirs THEN ret("file exists", made)
             ELSE ret("nil", Append(made, entry("symlink")))
        [] IsLnk(member) ->
             IF \E i \in 1..Len(made) : made[i].name = member.Linkname
                  /\ member.Name \notin dirs
               THEN ret("nil", Append(made, entry("link")))
             ELSE ret("no such file or directory", made)
        [] OTHER -> ret("nil", made)

\* The range loop of ExtractAll from the i-th member on: the first failure
\* returns, wrapped with the member's name.
RECURSIVE extractFrom(_, _, _, _, _)
extractFrom(h, members, i, made, dirs) ==
  LET one(r) ==
        IF r.err # "nil"
          THEN [h |-> r.h, err |-> "failed to extract",
                failed |-> members[i].Name, made |-> r.made, tried |-> i]
        ELSE extractFrom(r.h, members, i + 1, r.made, dirs)
  IN  IF i > Len(members)
        THEN [h |-> h, err |-> "nil", failed |-> <<>>, made |-> made,
              tried |-> Len(members)]
      ELSE one(extractMember(h, members[i], made, dirs))

\* ExtractAll(path): lock mu, check the mode, list the members as
\* getMembers does, then extract each.
ExtractAll(h, dirs) ==
  LET out(hh, err, failed, made, tried, k) ==
        [h |-> hh, err |-> err, failed |-> failed, made |-> made,
         tried |-> tried, k |-> k]
      unlocked(r) ==
        out([r.h EXCEPT !.mu = FALSE], r.err, r.failed, r.made, r.tried,
            "ok")
      listed(l) ==
        IF l.loops THEN out(l.h, "nil", <<>>, <<>>, 0, "loops")
        ELSE unlocked(extractFrom(l.h, l.h.members, 1, <<>>, dirs))
      checked(h1, c) ==
        IF c # "nil" THEN out([h1 EXCEPT !.mu = FALSE], c, <<>>, <<>>, 0, "ok")
        ELSE IF h1.loaded THEN listed([h |-> h1, loops |-> FALSE])
        ELSE listed(load(h1))
      locked(h1) == checked(h1, check(h1, {"r"}))
  IN  IF h.mu THEN out(h, "nil", <<>>, <<>>, 0, "blocked")
      ELSE locked([h EXCEPT !.mu = TRUE])

\* Extract(member, path): lock mu, check the mode, extract the member.
Extract(h, member, dirs) ==
  LET out(hh, err, made, k) ==
        [h |-> hh, err |-> err, made |-> made, k |-> k]
      unlocked(r) == out([r.h EXCEPT !.mu = FALSE], r.err, r.made, "ok")
      checked(h1, c) ==
        IF c # "nil" THEN out([h1 EXCEPT !.mu = FALSE], c, <<>>, "ok")
        ELSE unlocked(extractMember(h1, member, <<>>, dirs))
      locked(h1) == checked(h1, check(h1, {"r"}))
  IN  IF h.mu THEN out(h, "nil", <<>>, "blocked")
      ELSE locked([h EXCEPT !.mu = TRUE])

\* The scan of NewTarFile in mode "a": read headers from offset until
\* EOFHeaderError, then seek back to offset.
RECURSIVE appendScan(_)
appendScan(h) ==
  LET back(hh, b) == [h |-> [hh EXCEPT !.fileObj = b.f], err |-> b.err]
      header(r) ==
        IF r.err = "EOFHeaderError"
          THEN back(r.h, Seek(r.h.fileObj, r.h.offset))
        ELSE IF r.err # "nil" THEN [h |-> r.h, err |-> "ReadError"]
        ELSE appendScan([r.h EXCEPT !.members = Append(r.h.members, r.ti)])
      sought(s) ==
        IF s.err # "nil" THEN [h |-> h, err |-> s.err]
        ELSE header(FromTarFile([h EXCEPT !.fileObj = s.f]))
  IN  sought(Seek(h.fileObj, h.offset))

\* "comment"
CommentKey == "comment"

\* NewTarFile(name, mode, fileobj, WithFormat(format),
\* WithPaxHeaders(paxHeaders)), with a further option that calls
\* SetIgnoreZeros(true) when ignoreZeros is TRUE.  k is "ok" with the handle in h, "err" with
\* the handle as Close left it, or "panic".
NewTarFile(mode, f, ext, format, paxHeaders, ignoreZeros, arch) ==
  LET h0 == [mode |-> mode, format |-> format, ignoreZeros |-> ignoreZeros,
             stream |-> FALSE, extFileObj |-> ext, paxHeaders |-> paxHeaders,
             fileObj |-> f, closed |-> FALSE, members |-> <<>>,
             loaded |-> FALSE, offset |-> tell(f), firstMember |-> Nil,
             mu |-> FALSE]
      failed(hh) == [k |-> "err", h |-> Close(hh).h]
      first(n) ==
        IF n.loops THEN [k |-> "loops", h |-> n.h]
        ELSE IF n.err # "nil" THEN failed(n.h)
        ELSE [k |-> "ok", h |-> [n.h EXCEPT !.firstMember = n.ti]]
      scanned(a) ==
        IF a.err # "nil" THEN failed(a.h) ELSE [k |-> "ok", h |-> a.h]
      written(g, w) ==
        IF w.err # "nil" THEN failed([h0 EXCEPT !.loaded = TRUE])
        ELSE [k |-> "ok",
              h |-> [h0 EXCEPT !.loaded = TRUE, !.fileObj = w.f,
                               !.offset = h0.offset + Len(g.v)]]
      global(g) ==
        IF g.k = "panic" THEN [k |-> "panic", h |-> h0]
        ELSE IF g.k = "err" THEN failed([h0 EXCEPT !.loaded = TRUE])
        ELSE written(g, Write(h0.fileObj, g.v))
  IN  CASE mode = "r" -> first(Next(h0))
        [] mode = "a" -> scanned(appendScan(h0))
        [] mode \in {"w", "x"} ->
             IF DOMAIN paxHeaders = {}
               THEN [k |-> "ok", h |-> [h0 EXCEPT !.loaded = TRUE]]
             ELSE global(createPaxGenericHeader(paxHeaders, XGLTYPE,
                                                KeyOrder(paxHeaders), arch))

\* ------------------------------------------------------------------------
\* Open in mode "r": plain tar, then gzip, bzip2, xz
\* ------------------------------------------------------------------------
\* The header by which each decoder knows its format: 10 bytes of gzip,
\* 4 of bzip2, 12 of xz.
Headers ==
  [gz |-> <<31, 139, 8, 0, 0, 0, 0, 0, 0, 255>>,
   bz2 |-> <<66, 90, 104, 57>>,
   xz |-> <<253, 55, 122, 88, 90, 0, 0, 4, 230, 214, 180, 70>>]

HasHeader(c, data) ==
  /\ Len(data) >= Len(Headers[c])
  /\ SubSeq(data, 1, Len(Headers[c])) = Headers[c]

\* Compression stands in the model as an encoding with the two properties
\* Open depends on: the stream starts with the format's header, and what
\* follows is not the plain bytes (each byte is one more, modulo 256).
Encoded(c, plain) ==
  Headers[c] \o [i \in 1..Len(plain) |-> (plain[i] + 1) % 256]

Decoded(c, data) ==
  [i \in 1..(Len(data) - Len(Headers[c])) |->
     (data[i + Len(Headers[c])] + 255) % 256]

\* &readWriteSeeker{r, fileobj} for the decoder r of format c, which has
\* taken fed bytes from fileobj.
Wrap(c, f, fed) ==
  [data |-> f.data, pos |-> f.pos, open |-> f.open,
   z |-> [bytes |-> IF HasHeader(c, f.data) THEN Decoded(c, f.data)
                    ELSE <<>>,
          at |-> 0, fed |-> fed, hdr |-> Len(Headers[c]),
          bad |-> ~HasHeader(c, f.data)]]

\* The stream inside a readWriteSeeker.
Unwrap(f) == [data |-> f.data, pos |-> f.pos, open |-> f.open]

\* openMethod(comptype, name, "r", fileobj).  byName is TRUE when fileobj
\* is nil and name is a file holding data; f is the caller's stream.  The
\* readers of gzip and xz read the header when they are made, bzip2's at
\* its first Read.  With a nil fileobj the gz case opens the file without
\* a decoder, and the wrappers of bz2 and xz hold a nil w, which tell
\* dereferences.  The result carries the caller's stream as the attempt
\* left it.
openMethod(comptype, f, byName, data, arch) ==
  LET read == [f EXCEPT !.pos = Min(Len(f.data), f.pos + BufioSize)]
      eager ==
        IF HasHeader(comptype, f.data)
          THEN [k |-> "ok", f |-> Wrap(comptype, read, read.pos - f.pos),
                ext |-> TRUE]
        ELSE [k |-> "err", f |-> read, ext |-> TRUE]
      prepared ==
        CASE comptype = "tar" ->
               [k |-> "ok", f |-> IF byName THEN FileOf(data) ELSE f,
                ext |-> ~byName]
          [] comptype = "gz" ->
               IF byName THEN [k |-> "ok", f |-> FileOf(data), ext |-> TRUE]
               ELSE eager
          [] comptype = "bz2" ->
               IF byName THEN [k |-> "panic", f |-> f, ext |-> TRUE]
               ELSE [k |-> "ok", f |-> Wrap(comptype, f, 0), ext |-> TRUE]
          [] comptype = "xz" ->
               IF byName THEN [k |-> "panic", f |-> f, ext |-> TRUE]
               ELSE eager
      opened(r) ==
        [k |-> r.k, h |-> r.h,
         f |-> IF byName THEN f ELSE Unwrap(r.h.fileObj)]
  IN  IF prepared.k # "ok" THEN [k |-> prepared.k, h |-> Nil, f |-> prepared.f]
      ELSE opened(NewTarFile("r", prepared.f, prepared.ext, DEFAULT_FORMAT,
                             EmptyMap, FALSE, arch))

\* []string{"tar", "gz", "bz2", "xz"}
TryOrder == <<"tar", "gz", "bz2", "xz">>

\* The loop of Open in mode "r" from the i-th comptype on.  starts holds
\* the cursor of the caller's stream at the start of each attempt made.
RECURSIVE openFrom(_, _, _, _, _, _)
openFrom(i, f, byName, data, arch, starts) ==
  LET out(k, h, ff, n, e) ==
        [k |-> k, h |-> h, f |-> ff, tried |-> n, err |-> e,
         starts |-> Append(starts, f.pos)]
      rewound(s) ==
        IF s.err # "nil" THEN out("err", Nil, s.f, i, s.err)
        ELSE openFrom(i + 1, s.f, byName, data, arch, Append(starts, f.pos))
      attempted(r) ==
        IF r.k = "err"
          THEN IF byName
                 THEN openFrom(i + 1, f, byName, data, arch,
                               Append(starts, f.pos))
               ELSE rewound(Seek(r.f, 0))
        ELSE out(r.k, r.h, r.f, i, "nil")
  IN  IF i > Len(TryOrder)
        THEN [k |-> "err", h |-> Nil, f |-> f, tried |-> Len(TryOrder),
              err |-> "ReadError", starts |-> starts]
      ELSE attempted(openMethod(TryOrder[i], f, byName, data, arch))

\* Open(name, "r", fileobj, bufsize)
Open(data, byName, arch) == openFrom(1, FileOf(data), byName, data, arch, <<>>)

\* ------------------------------------------------------------------------
\* The callers' inputs
\* ------------------------------------------------------------------------
\* The largest number of AddFile calls made on one handle.
MaxAdds == 2
\* The largest number of Close calls on one handle.
MaxCloses == 2
\* "hello.txt", "data/", "data", "a.txt", "b.txt", "nope"
HelloTxt == <<104, 101, 108, 108, 111, 46, 116, 120, 116>>
DataDir == <<100, 97, 116, 97, 47>>
Data == <<100, 97, 116, 97>>
ATxt == <<97, 46, 116, 120, 116>>
BTxt == <<98, 46, 116, 120, 116>>
Nope == <<110, 111, 112, 101>>
\* "d/aaa...a": longer than LENGTH_NAME, with one '/' to split at.
LongName == <<100, Slash>> \o [i \in 1..LENGTH_NAME |-> 97]
\* "Hello, World!"
HelloWorld == <<72, 101, 108, 108, 111, 44, 32, 87, 111, 114, 108, 100, 33>>

File(name, size, mtime) ==
  [NewTarInfo(name) EXCEPT !.Size = size, !.Mtime = TimeUnix(mtime, 0)]

Dir(name) == [NewTarInfo(name) EXCEPT !.Type = DIRTYPE, !.Mode = 493]

\* The AddFile calls a caller makes: the record and the payload source.
AddInputs ==
  {[ti |-> File(HelloTxt, 13, 0), fileobj |-> Reader(HelloWorld)],
   [ti |-> File(HelloTxt, 13, 0), fileobj |-> Nil],
   [ti |-> Dir(DataDir), fileobj |-> Nil],
   [ti |-> File(LongName, 13, 0), fileobj |-> Reader(HelloWorld)],
   [ti |-> File(LongName, 13, 0), fileobj |-> Reader(SubSeq(HelloWorld, 1, 5))],
   [ti |-> File(LongName, 0, 2), fileobj |-> Nil]}

\* A member as another tar writer stores it: one header block in GNU
\* layout and the payload padded to whole blocks.
StoredHeader(ti) ==
  createHeader(Put(Put(GetInfo(ti), "magic", StrV(GNU_MAGIC)),
                   "prefix", StrV(<<>>)),
               GNU_FORMAT, "amd64").v

Stored(ti, payload) == StoredHeader(ti) \o createPayload(payload)

ZeroBlock == Zeros(BLOCKSIZE)

RECURSIVE ZeroBlocks(_)
ZeroBlocks(n) == IF n = 0 THEN <<>> ELSE ZeroBlock \o ZeroBlocks(n - 1)

\* The archives a handle is opened on in modes "r" and "a".
\* hello.txt (13 bytes) and the directory data/
ArchiveHello ==
  Stored(File(HelloTxt, 13, 0), HelloWorld) \o Stored(Dir(DataDir), <<>>)
  \o ZeroBlocks(2)
\* two members named a.txt
ArchiveDup ==
  Stored(File(ATxt, 0, 1), <<>>) \o Stored(File(ATxt, 0, 2), <<>>)
  \o ZeroBlocks(2)
\* a member whose payload is itself a tar archive, then b.txt
ArchiveNested ==
  Stored(File(HelloTxt, 3 * BLOCKSIZE, 0),
         Stored(File(ATxt, 0, 1), <<>>) \o ZeroBlocks(2))
  \o Stored(File(BTxt, 0, 0), <<>>) \o ZeroBlocks(2)
\* one member and a trailer that fills a record of 22 blocks (tar -b 22)
ArchiveWide == Stored(File(ATxt, 0, 1), <<>>) \o ZeroBlocks(21)

\* one member with the name "d/aaa...a" of 102 bytes as GNU tar stores it:
\* a ././@LongLink header of type 'L', the name and a NUL in one block, then
\* the member's header with the first 100 bytes of the name
ArchiveLong ==
  Stored([File(LongLinkName, Len(LongName) + 1, 0)
            EXCEPT !.Type = GNUTYPE_LONGNAME],
         Append(LongName, NUL))
  \o Stored(File(SubSeq(LongName, 1, LENGTH_NAME), 0, 0), <<>>)
  \o ZeroBlocks(2)

\* a.txt, a header block with one byte of its name changed after the
\* checksum was stored, b.txt: a corrupt block between two members
ArchiveCorrupt ==
  Stored(File(ATxt, 0, 1), <<>>)
  \o [StoredHeader(File(HelloTxt, 0, 0)) EXCEPT ![1] = 72]
  \o Stored(File(BTxt, 0, 0), <<>>) \o ZeroBlocks(2)

\* a.txt and b.txt, both empty
ArchiveTwo ==
  Stored(File(ATxt, 0, 1), <<>>) \o Stored(File(BTxt, 0, 2), <<>>)
  \o ZeroBlocks(2)

Archives ==
  {<<>>, ZeroBlocks(2), ArchiveHello, ArchiveDup, ArchiveNested, ArchiveWide,
   ArchiveLong, ArchiveCorrupt, ArchiveTwo}

\* No archive read here has more members than this.
MaxMembers == 3

\* The names at which a directory stands below the target of ExtractAll
\* before the call.
TargetDirs == {{}, {ATxt}, {HelloTxt}}

\* Streams whose block at offset 0 is not a header: one byte of the name
\* changed after the checksum was stored; the digit '9' in the size field
\* buf[124:136] under a matching checksum; the first 100 bytes of a header.
\* The first two go on with the member b.txt and the trailer.
BadFirstBlocks ==
  LET header == StoredHeader(File(ATxt, 0, 1))
      rest == Stored(File(BTxt, 0, 0), <<>>) \o ZeroBlocks(2)
  IN  {[header EXCEPT ![1] = 98] \o rest,
       WithChecksum([header EXCEPT ![125] = 57]) \o rest,
       SubSeq(header, 1, 100)}

\* The names asked of GetMember.
LookupNames == {ATxt, HelloTxt, Data, DataDir, Nope}

\* The PAX global headers given to NewTarFile: none, or comment=hi.
GlobalHeaders == {EmptyMap, CommentKey :> <<104, 105>>}

\* The ways a handle is opened: an archive to read, an archive to append
\* to, a new stream or file to write, a new file to create exclusively.
Opens ==
  [mode : {"r"}, data : Archives, ext : BOOLEAN,
   format : {DEFAULT_FORMAT}, pax : {EmptyMap}, iz : {FALSE}]
  \cup [mode : {"r"}, data : BadFirstBlocks \cup {ArchiveHello},
        ext : {TRUE}, format : {DEFAULT_FORMAT}, pax : {EmptyMap},
        iz : BOOLEAN]
  \cup [mode : {"a"},
        data : {<<>>, ArchiveHello, ArchiveDup, ArchiveWide, ArchiveCorrupt},
        ext : BOOLEAN, format : {USTAR_FORMAT, DEFAULT_FORMAT},
        pax : {EmptyMap}, iz : {FALSE}]
  \cup [mode : {"w"}, data : {<<>>}, ext : BOOLEAN,
        format : {USTAR_FORMAT, GNU_FORMAT, PAX_FORMAT}, pax : GlobalHeaders,
        iz : {FALSE}]
  \cup [mode : {"x"}, data : {<<>>}, ext : {FALSE},
        format : {USTAR_FORMAT, GNU_FORMAT, PAX_FORMAT}, pax : {EmptyMap},
        iz : {FALSE}]

\* ------------------------------------------------------------------------
\* The handle's life: open, calls, close
\* ------------------------------------------------------------------------
NoOp == [name |-> "open"]

Hist0 ==
  [adds |-> <<>>, tries |-> 0, addFailed |-> FALSE, closes |-> 0,
   scanned |-> FALSE, reopened |-> FALSE, wrote |-> "r", given |-> <<>>]

\* How the caller goes on after a call stopped with outcome k.
StatusOf(k) ==
  CASE k = "panic" -> "panicked"
    [] k = "blocked" -> "deadlocked"
    [] k = "loops" -> "looping"
    [] OTHER -> "running"

Opened(o, arch) ==
  NewTarFile(o.mode, FileOf(o.data), o.ext, o.format, o.pax, o.iz, arch)

Init ==
  LET opened(r) ==
        /\ tf = r.h
        /\ status = IF r.k = "err" THEN "openfailed" ELSE StatusOf(r.k)
  IN  /\ goarch \in GoArchs
      /\ \E o \in Opens :
           /\ opened(Opened(o, goarch))
           /\ hist = [Hist0 EXCEPT !.given = o.data]
      /\ op = NoOp

Running == status = "running"

DoAddFile(in) ==
  LET returned(r) ==
        /\ tf' = r.h
        /\ status' = StatusOf(r.k)
        /\ op' = [name |-> "AddFile", ret |-> r.k, in |-> in,
                  wasClosed |-> tf.closed]
        /\ hist' = IF r.k = "ok"
                     THEN [hist EXCEPT !.tries = @ + 1,
                                       !.adds =
                             Append(@, [in |-> in, at |-> tf.offset,
                                        end |-> r.h.offset,
                                        wasClosed |-> tf.closed])]
                   ELSE [hist EXCEPT !.tries = @ + 1, !.addFailed = TRUE]
  IN  /\ Running
      /\ tf.mode \in {"a", "w", "x"}
      /\ hist.tries < MaxAdds
      /\ returned(AddFile(tf, in.ti, in.fileobj, goarch))
      /\ UNCHANGED goarch

DoClose ==
  LET returned(r) ==
        /\ tf' = r.h
        /\ op' = [name |-> "Close", ret |-> r.err, offset |-> tf.offset,
                  wasClosed |-> tf.closed, len |-> Len(tf.fileObj.data)]
  IN  /\ Running
      /\ hist.closes < MaxCloses
      /\ returned(Close(tf))
      /\ status' = status
      /\ hist' = [hist EXCEPT !.closes = @ + 1]
      /\ UNCHANGED goarch

\* Whether the stream holds exactly two all-zero blocks from position at on.
TwoZeroBlocksAtEnd(f, at) ==
  /\ Len(f.data) = at + 2 * BLOCKSIZE
  /\ \A i \in (at + 1)..Len(f.data) : f.data[i] = NUL

DoNext ==
  LET returned(r) ==
        /\ tf' = r.h
        /\ status' = IF r.loops THEN "looping" ELSE status
        /\ op' = [name |-> "Next",
                  ret |-> IF r.loops THEN "loops"
                          ELSE IF r.err # "nil" THEN "err"
                          ELSE IF r.ti = Nil THEN "nil" ELSE "ok",
                  ti |-> r.ti,
                  wasClosed |-> tf.closed,
                  decoded |-> tf.firstMember = Nil,
                  at |-> tf.offset,
                  atTrailer |-> tf.firstMember = Nil
                                /\ TwoZeroBlocksAtEnd(tf.fileObj, tf.offset)]
  IN  /\ Running
      /\ tf.mode = "r"
      /\ ~hist.reopened
      /\ returned(Next(tf))
      /\ UNCHANGED <<goarch, hist>>

DoGetMembers ==
  LET returned(r) ==
        /\ tf' = r.h
        /\ status' = IF r.loops THEN "looping" ELSE status
        /\ op' = [name |-> "GetMembers",
                  ret |-> IF r.loops THEN "loops" ELSE "ok",
                  members |-> r.members, wasClosed |-> tf.closed]
  IN  /\ Running
      /\ returned(GetMembers(tf))
      /\ hist' = [hist EXCEPT !.scanned = TRUE]
      /\ UNCHANGED goarch

DoGetMember(name) ==
  LET returned(r) ==
        /\ tf' = r.h
        /\ status' = IF r.blocked THEN "deadlocked"
                     ELSE IF r.loops THEN "looping" ELSE status
        /\ op' = [name |-> "GetMember",
                  ret |-> IF r.blocked THEN "blocked"
                          ELSE IF r.loops THEN "loops"
                          ELSE IF r.ti = Nil THEN "err" ELSE "ok",
                  ti |-> r.ti, arg |-> name, wasClosed |-> tf.closed]
  IN  /\ Running
      /\ tf.mode = "r"
      /\ ~hist.reopened
      /\ returned(GetMember(tf, name))
      /\ UNCHANGED <<goarch, hist>>

DoExtractAll(dirs) ==
  LET returned(r) ==
        /\ tf' = r.h
        /\ status' = StatusOf(r.k)
        /\ op' = [name |-> "ExtractAll", ret |-> r.k, err |-> r.err,
                  failed |-> r.failed, made |-> r.made, tried |-> r.tried,
                  dirs |-> dirs, wasClosed |-> tf.closed]
  IN  /\ Running
      /\ tf.mode = "r"
      /\ ~hist.reopened
      /\ returned(ExtractAll(tf, dirs))
      /\ hist' = [hist EXCEPT !.scanned = TRUE]
      /\ UNCHANGED goarch

SetIgnoreZeros(b) ==
  /\ Running
  /\ tf.mode = "r"
  /\ ~hist.reopened
  /\ tf.ignoreZeros # b
  /\ ~tf.closed
  /\ tf' = [tf EXCEPT !.ignoreZeros = b]
  /\ op' = [name |-> "SetIgnoreZeros"]
  /\ UNCHANGED <<goarch, status, hist>>

\* The caller opens the bytes of the archive it has written and closed in
\* a new handle, in mode "r", to list them with GetMembers.
Reopen ==
  LET opened(r) ==
        /\ tf' = r.h
        /\ status' = IF r.k = "err" THEN "openfailed" ELSE StatusOf(r.k)
        /\ op' = [name |-> "Reopen", ret |-> r.k]
  IN  /\ Running
      /\ tf.mode \in {"a", "w", "x"}
      /\ tf.closed
      /\ op.name = "Close"
      /\ ~hist.reopened
      /\ opened(NewTarFile("r", FileOf(tf.fileObj.data), tf.extFileObj,
                           DEFAULT_FORMAT, EmptyMap, FALSE, goarch))
      /\ hist' = [hist EXCEPT !.reopened = TRUE, !.wrote = tf.mode]
      /\ UNCHANGED goarch

Step ==
  \/ \E in \in AddInputs : DoAddFile(in)
  \/ DoClose
  \/ DoNext
  \/ DoGetMembers
  \/ \E name \in LookupNames : DoGetMember(name)
  \/ \E b \in BOOLEAN : SetIgnoreZeros(b)
  \/ \E dirs \in TargetDirs : DoExtractAll(dirs)
  \/ Reopen

Spec == Init /\ [][Step]_vars

\* ------------------------------------------------------------------------
\* Reading: Next and Extract of indexed members on a handle in mode "r"
\* ------------------------------------------------------------------------
\* the directory data/ alone
ArchiveDir == Stored(Dir(DataDir), <<>>) \o ZeroBlocks(2)

ReadArchives == Archives \cup {ArchiveDir}

InitRead ==
  LET opened(r) ==
        /\ tf = r.h
        /\ status = IF r.k = "err" THEN "openfailed" ELSE StatusOf(r.k)
  IN  /\ goarch \in GoArchs
      /\ \E data \in ReadArchives, ext \in BOOLEAN :
           /\ opened(NewTarFile("r", FileOf(data), ext, DEFAULT_FORMAT,
                                EmptyMap, FALSE, goarch))
           /\ hist = [Hist0 EXCEPT !.given = data]
      /\ op = NoOp

\* Extract of the i-th record of the index, as Next or GetMembers gave it
\* to the caller.
DoExtract(i, dirs) ==
  LET returned(r) ==
        /\ tf' = r.h
        /\ status' = StatusOf(r.k)
        /\ op' = [name |-> "Extract", ret |-> r.k, err |-> r.err,
                  member |-> tf.members[i], made |-> r.made, dirs |-> dirs,
                  wasClosed |-> tf.closed]
  IN  /\ Running
      /\ i \in 1..Len(tf.members)
      /\ returned(Extract(tf, tf.members[i], dirs))
      /\ UNCHANGED <<goarch, hist>>

StepRead ==
  \/ DoNext
  \/ \E i \in 1..MaxMembers, dirs \in TargetDirs : DoExtract(i, dirs)
  \/ \E name \in LookupNames : DoGetMember(name)
  \/ DoClose

SpecRead == InitRead /\ [][StepRead]_vars

\* ------------------------------------------------------------------------
\* Writing: the caller keeps the records it has added
\* ------------------------------------------------------------------------
InitWrite == Init /\ tf.mode = "w"

\* ti.Name = name on the record the caller passed to its k-th successful
\* AddFile.  AddFile appended that pointer to the index (ti := tarinfo
\* copies the pointer, not the struct), so the record in the index is the
\* one assigned to.
SetName(h, k, name) == [h EXCEPT !.members[k].Name = name]

DoSetName(k, name) ==
  /\ Running
  /\ k \in 1..Len(hist.adds)
  /\ tf.members[k].Name # name
  /\ tf' = SetName(tf, k, name)
  /\ op' = [name |-> "SetName", k |-> k, to |-> name]
  /\ UNCHANGED <<goarch, status, hist>>

StepWrite ==
  \/ \E in \in AddInputs : DoAddFile(in)
  \/ \E k \in 1..MaxAdds : DoSetName(k, Nope)
  \/ DoGetMembers

SpecWrite == InitWrite /\ [][StepWrite]_vars

\* ------------------------------------------------------------------------
\* The codec on its own: one call of ToBuf, or of FromBuf on a block with
\* one byte changed
\* ------------------------------------------------------------------------
\* "root", "link/target"
Root == <<114, 111, 111, 116>>
Target == <<108, 105, 110, 107, 47, 116, 97, 114, 103, 101, 116>>
\* A name of 150 bytes without '/'.
Name150 == [i \in 1..150 |-> 98]

\* 8^7, the least uid that needs more than the seven octal digits of its
\* field.
TooBigForOctal == 2097152

\* "123", and "\u00e9.txt" in UTF-8.
Digits123 == <<49, 50, 51>>
EAcuteTxt == <<195, 169, 46, 116, 120, 116>>

\* The records given to ToBuf.
ToBufRecords ==
  {File(HelloTxt, 13, 0),
   Dir(DataDir),
   [File(ATxt, 0, 1) EXCEPT !.Uname = Root, !.Gname = Root, !.UID = 1000,
                            !.GID = 1000],
   [NewTarInfo(ATxt) EXCEPT !.Type = SYMTYPE, !.Linkname = Target],
   [NewTarInfo(ATxt) EXCEPT !.Type = CHRTYPE, !.DevMajor = 8, !.DevMinor = 1],
   File(LongName, 13, 0),
   File(Name150, 0, 0),
   [NewTarInfo(ATxt) EXCEPT !.Type = SYMTYPE, !.Linkname = Name150],
   [File(ATxt, 0, 1) EXCEPT !.UID = TooBigForOctal],
   [File(ATxt, 0, 1) EXCEPT !.GID = -1],
   File(ATxt, -1, 1),
   NewTarInfo(ATxt),
   NewTarInfo(Digits123),
   NewTarInfo(EAcuteTxt),
   [NewTarInfo(ATxt) EXCEPT !.Uname = Digits123]}

Formats == {USTAR_FORMAT, GNU_FORMAT, PAX_FORMAT}

\* Header blocks as tar writers store them, all accepted by FromBuf.
StoredBlocks ==
  {StoredHeader(File(HelloTxt, 13, 0)),
   StoredHeader(Dir(DataDir)),
   StoredHeader([NewTarInfo(ATxt) EXCEPT !.Type = SYMTYPE,
                                         !.Linkname = Target,
                                         !.Uname = Root])}

\* The amounts added (modulo 256) to the byte that is changed.
FlipDeltas == {1, 128, 255}

\* The byte positions outside the checksum field buf[148:156], 1-based.
FlipPositions == (1..BLOCKSIZE) \ (149..156)

Flipped(buf, i, d) == [buf EXCEPT ![i] = (buf[i] + d) % 256]

\* What the sparse part of a type 'S' header holds: the four (offset,
\* numbytes) slots read from buf[386:482], the is-extended byte buf[482]
\* and the real size in buf[483:495].
SparseLayouts ==
  {[slots |-> <<<<0, 0>>, <<0, 0>>, <<0, 0>>, <<0, 0>>>>, ext |-> 0,
    real |-> 0],
   [slots |-> <<<<0, 1024>>, <<1047552, 1024>>, <<0, 0>>, <<0, 0>>>>,
    ext |-> 0, real |-> 1048576],
   [slots |-> <<<<0, 512>>, <<1024, 512>>, <<2048, 512>>, <<4096, 0>>>>,
    ext |-> 0, real |-> 4096],
   [slots |-> <<<<512, 512>>, <<0, 0>>, <<4096, 512>>, <<0, 0>>>>,
    ext |-> 0, real |-> 8192],
   [slots |-> <<<<0, 0>>, <<0, 0>>, <<0, 0>>, <<0, 0>>>>, ext |-> 1,
    real |-> 4096]}

\* The size field of the sparse headers: the bytes stored in the archive.
SparseStoredSize == 2048

\* The type 'S' header block of a.txt with the sparse part l.
SparseBlock(l) ==
  LET base == StoredHeader([File(ATxt, SparseStoredSize, 1)
                              EXCEPT !.Type = GNUTYPE_SPARSE])
      field(n) == itn(n, 12, GNU_FORMAT, "amd64").v
      slot(i) == field(l.slots[i][1]) \o field(l.slots[i][2])
  IN  WithChecksum(SubSeq(base, 1, 386)
                   \o slot(1) \o slot(2) \o slot(3) \o slot(4)
                   \o <<l.ext>> \o field(l.real)
                   \o SubSeq(base, 496, BLOCKSIZE))

\* "ustar\x00" and the version "00", as POSIX writers store them in
\* buf[257:265].
UstarMagicVersion == <<117, 115, 116, 97, 114, 0, 48, 48>>

\* The names of the records whose headers are decoded: "data", "data/",
\* "data//", "/" and "a.txt"; the prefixes: none and "d".
StoredNames == {Data, DataDir, Append(DataDir, Slash), <<Slash>>, ATxt}
StoredPrefixes == {<<>>, <<100>>}

\* The header block of a record of type typ whose name field holds what
\* GetInfo gives for name, and whose prefix field holds prefix.
NamedBlock(name, typ, prefix) ==
  createHeader(Put(Put(GetInfo([NewTarInfo(name) EXCEPT !.Type = typ]),
                       "magic", StrV(UstarMagicVersion)),
                   "prefix", StrV(prefix)),
               USTAR_FORMAT, "amd64").v

\* The values of the extended-header records written: "7", "123", and
\* runs of 'a' of lengths at which the decimal length of the record gains
\* a digit.
PaxValues ==
  {<<55>>, <<49, 50, 51>>}
  \cup {[i \in 1..n |-> 97] : n \in {0, 1, 2, 3, 4, 88, 89, 90, 91, 92, 93}}

CodecCalls ==
  [name : {"call"}, fn : {"ToBuf"}, ti : ToBufRecords, format : Formats]
  \cup [name : {"call"}, fn : {"createPaxGenericHeader"},
        key : {"path", "uid", "comment"}, value : PaxValues]
  \cup [name : {"call"}, fn : {"FromBufNamed"}, ti : StoredNames,
        type : {DIRTYPE, AREGTYPE, REGTYPE}, prefix : StoredPrefixes]
  \cup [name : {"call"}, fn : {"FromBuf"}, buf : StoredBlocks,
        i : FlipPositions, d : FlipDeltas]
  \cup [name : {"call"}, fn : {"FromBufSparse"}, layout : SparseLayouts]

InitCodec ==
  /\ goarch \in GoArchs
  /\ tf = Nil
  /\ status = "running"
  /\ op \in CodecCalls
  /\ hist = Hist0

\* buf, err := ti.ToBuf(format, ...); if it returns bytes, FromBuf(buf).
\* pax is the mapping as the loop over the string fields of createPaxHeader
\* leaves it.
CallToBuf ==
  LET returned(r) ==
        /\ op' = [name |-> "ToBuf", ti |-> op.ti, format |-> op.format,
                  ret |-> r.k,
                  e |-> IF r.k = "ok" THEN "nil" ELSE r.e,
                  buf |-> IF r.k = "ok" THEN r.v ELSE <<>>,
                  pax |-> IF op.format = PAX_FORMAT
                            THEN PaxStrings(GetInfo(op.ti), op.ti.PaxHeaders,
                                            1)
                          ELSE EmptyMap,
                  dec |-> IF r.k = "ok" THEN FromBuf(r.v)
                          ELSE Err("no bytes")]
        /\ status' = StatusOf(r.k)
  IN  /\ op.name = "call"
      /\ op.fn = "ToBuf"
      /\ returned(ToBuf(op.ti, op.format, goarch))
      /\ UNCHANGED <<goarch, tf, hist>>

\* FromBuf on a block it accepts, and on the block with one byte changed.
CallFromBuf ==
  /\ op.name = "call"
  /\ op.fn = "FromBuf"
  /\ op' = [name |-> "FromBuf", i |-> op.i, d |-> op.d,
            accepted |-> FromBuf(op.buf).k = "ok",
            ret |-> FromBuf(Flipped(op.buf, op.i, op.d))]
  /\ UNCHANGED <<goarch, tf, status, hist>>

\* FromBuf on a type 'S' header block.
CallFromBufSparse ==
  /\ op.name = "call"
  /\ op.fn = "FromBufSparse"
  /\ op' = [name |-> "FromBufSparse", layout |-> op.layout,
            ret |-> FromBuf(SparseBlock(op.layout))]
  /\ UNCHANGED <<goarch, tf, status, hist>>

\* createPaxGenericHeader on a mapping of one key, for an 'x' header.
CallCreatePaxGenericHeader ==
  LET returned(r) ==
        /\ op' = [name |-> "createPaxGenericHeader", key |-> op.key,
                  value |-> op.value, ret |-> r]
        /\ status' = StatusOf(r.k)
  IN  /\ op.name = "call"
      /\ op.fn = "createPaxGenericHeader"
      /\ returned(createPaxGenericHeader(op.key :> op.value, XHDTYPE,
                                         <<op.key>>, goarch))
      /\ UNCHANGED <<goarch, tf, hist>>

\* GetInfo on a record, and FromBuf on the header block holding the name
\* GetInfo gave.
CallFromBufNamed ==
  /\ op.name = "call"
  /\ op.fn = "FromBufNamed"
  /\ op' = [name |-> "FromBufNamed", ti |-> op.ti, type |-> op.type,
            prefix |-> op.prefix,
            info |-> GetInfo([NewTarInfo(op.ti) EXCEPT !.Type = op.type]),
            ret |-> FromBuf(NamedBlock(op.ti, op.type, op.prefix))]
  /\ UNCHANGED <<goarch, tf, status, hist>>

StepCodec ==
  \/ CallToBuf
  \/ CallFromBuf
  \/ CallFromBufSparse
  \/ CallFromBufNamed
  \/ CallCreatePaxGenericHeader

SpecCodec == InitCodec /\ [][StepCodec]_vars

\* ------------------------------------------------------------------------
\* The number fields on their own: one call of itn, and nti on its bytes
\* ------------------------------------------------------------------------
\* The widths createHeader passes to itn: 8 for mode, uid, gid and the
\* device numbers, 12 for size and mtime.
FieldWidths == {8, 12}

\* The values passed: small ones, the ends of the octal range of the
\* 8-byte field (8^7 - 1 and 8^7), negative ones, and the largest that
\* the integers of TLC hold.
FieldValues ==
  {0, 1, 7, 8, 13, 420, 493, 4095, 65536, 2097151, 2097152, 2097153,
   16777216, 1000000000, 2147483647,
   -1, -8, -255, -256, -2097152, -2147483647}

NumberCalls ==
  [name : {"call"}, fn : {"itn"}, n : FieldValues, digits : FieldWidths,
   format : Formats]

InitNumber ==
  /\ goarch \in GoArchs
  /\ tf = Nil
  /\ status = "running"
  /\ op \in NumberCalls
  /\ hist = Hist0

\* buf, err := itn(n, digits, format); if it returns bytes, nti(buf).
CallItn ==
  LET returned(r) ==
        op' = [name |-> "itn", n |-> op.n, digits |-> op.digits,
               format |-> op.format, out |-> r,
               back |-> IF r.k = "ok" THEN nti(r.v) ELSE Err("no bytes")]
  IN  /\ op.name = "call"
      /\ op.fn = "itn"
      /\ returned(itn(op.n, op.digits, op.format, goarch))
      /\ UNCHANGED <<goarch, tf, status, hist>>

StepNumber == CallItn

SpecNumber == InitNumber /\ [][StepNumber]_vars

\* ------------------------------------------------------------------------
\* One call of Open in mode "r", and Close on the handle it returns
\* ------------------------------------------------------------------------
\* What the stream or the file holds: the archives, plain and encoded, a
\* text that is no archive, plain and encoded, and nothing, encoded.
OpenContents ==
  Archives \cup BadFirstBlocks \cup {HelloWorld}
  \cup {Encoded(c, p) : c \in {"gz", "bz2", "xz"},
                         p \in {ArchiveHello, ArchiveTwo, HelloWorld, <<>>}}

InitOpen ==
  /\ goarch \in GoArchs
  /\ tf = Nil
  /\ status = "calling"
  /\ \E data \in OpenContents, byName \in BOOLEAN :
       /\ op = [name |-> "call", fn |-> "Open", data |-> data,
                byName |-> byName]
       /\ hist = [Hist0 EXCEPT !.given = data]

CallOpen ==
  LET returned(r) ==
        /\ tf' = r.h
        /\ status' = IF r.k = "err" THEN "openfailed" ELSE StatusOf(r.k)
        /\ op' = [name |-> "Open", ret |-> r.k, err |-> r.err,
                  tried |-> r.tried, starts |-> r.starts, f |-> r.f,
                  data |-> op.data, byName |-> op.byName]
  IN  /\ status = "calling"
      /\ returned(Open(op.data, op.byName, goarch))
      /\ UNCHANGED <<goarch, hist>>

StepOpen == CallOpen \/ DoClose

SpecOpen == InitOpen /\ [][StepOpen]_vars

\* ------------------------------------------------------------------------
\* Goroutines on one handle: two calls of AddFile on a handle opened for
\* writing, or two calls of GetMembers on a handle opened for reading.
\* AddFile takes no lock, so its statements interleave; GetMembers runs
\* between Lock and Unlock of mu.
\* ------------------------------------------------------------------------
\* "e/aaa...a"
OtherLongName == <<101, Slash>> \o [i \in 1..LENGTH_NAME |-> 97]

\* The AddFile calls the goroutines make.
RaceInputs ==
  {[ti |-> File(LongName, 13, 0), fileobj |-> Reader(HelloWorld)],
   [ti |-> File(OtherLongName, 0, 2), fileobj |-> Nil],
   [ti |-> File(OtherLongName, 13, 0), fileobj |-> Nil]}

Goroutines == 1..2

\* A call in flight.  pc is the statement the goroutine is at; len is
\* len(buf); off and mem are the values of tf.offset and tf.members the
\* goroutine has loaded and not yet stored back.
AddFileCall(in) ==
  [fn |-> "AddFile", in |-> in, pc |-> "start", len |-> 0, off |-> 0,
   mem |-> <<>>, ret |-> ""]

GetMembersCall == [fn |-> "GetMembers", pc |-> "start", ret |-> <<>>]

RaceOpens ==
  [mode : {"w"}, data : {<<>>}, ext : {TRUE},
   format : {USTAR_FORMAT, DEFAULT_FORMAT}, pax : {EmptyMap}, iz : {FALSE}]
  \cup [mode : {"r"},
        data : {ArchiveHello, ArchiveDup, ArchiveNested, ArchiveWide},
        ext : {TRUE}, format : {DEFAULT_FORMAT}, pax : {EmptyMap},
        iz : {FALSE}]

InitRace ==
  LET opened(r) ==
        /\ tf = r.h
        /\ status = IF r.k = "err" THEN "openfailed" ELSE StatusOf(r.k)
  IN  /\ goarch \in GoArchs
      /\ \E o \in RaceOpens :
           /\ opened(Opened(o, goarch))
           /\ IF o.mode = "w"
                THEN \E a, b \in RaceInputs :
                       op = [name |-> "go",
                             calls |-> <<AddFileCall(a), AddFileCall(b)>>]
              ELSE op = [name |-> "go",
                         calls |-> <<GetMembersCall, GetMembersCall>>]
      /\ hist = Hist0

At(g, fn, pcs) ==
  /\ Running
  /\ op.calls[g].fn = fn
  /\ op.calls[g].pc \in pcs

\* AddFile up to the Write of the header block.
AddFileHeader(g) ==
  LET c == op.calls[g]
      return(k) ==
        /\ tf' = tf
        /\ status' = StatusOf(k)
        /\ op' = [op EXCEPT !.calls[g].pc = "done", !.calls[g].ret = k]
      written(buf, w) ==
        IF w.err # "nil" THEN return("err")
        ELSE /\ tf' = [tf EXCEPT !.fileObj = w.f]
             /\ status' = status
             /\ op' = [op EXCEPT !.calls[g].pc = "load1",
                                 !.calls[g].len = Len(buf.v)]
      header(buf) ==
        IF buf.k # "ok" THEN return(buf.k)
        ELSE written(buf, Write(tf.fileObj, buf.v))
  IN  /\ At(g, "AddFile", {"start"})
      /\ IF c.in.fileobj = Nil /\ IsReg(c.in.ti) /\ c.in.ti.Size # 0
           THEN return("err")
         ELSE header(ToBuf(c.in.ti, tf.format, goarch))
      /\ UNCHANGED <<goarch, hist>>

\* tf.offset += ..., the load of tf.offset.
LoadOffset(g) ==
  /\ At(g, "AddFile", {"load1", "load2"})
  /\ op' = [op EXCEPT !.calls[g].off = tf.offset,
                      !.calls[g].pc = IF @ = "load1" THEN "store1"
                                      ELSE "store2"]
  /\ UNCHANGED <<goarch, tf, status, hist>>

\* tf.offset += ..., the store: int64(len(buf)) after the header,
\* blocks * BLOCKSIZE after the payload.
StoreOffset(g) ==
  LET c == op.calls[g]
      dm == divmod(c.in.ti.Size, BLOCKSIZE)
      blocks == IF dm[2] > 0 THEN dm[1] + 1 ELSE dm[1]
  IN  /\ At(g, "AddFile", {"store1", "store2"})
      /\ tf' = [tf EXCEPT !.offset =
                  c.off + IF c.pc = "store1" THEN c.len
                          ELSE blocks * BLOCKSIZE]
      /\ op' = [op EXCEPT !.calls[g].pc =
                  IF c.pc = "store1" /\ c.in.fileobj # Nil THEN "copy"
                  ELSE "loadm"]
      /\ UNCHANGED <<goarch, status, hist>>

\* io.CopyN(tf.fileObj, fileobj, ti.Size)
AddFileCopy(g) ==
  LET c == op.calls[g]
      copied(w) ==
        /\ tf' = [tf EXCEPT !.fileObj = w.f]
        /\ op' = IF w.err # "nil"
                   THEN [op EXCEPT !.calls[g].pc = "done",
                                   !.calls[g].ret = "err"]
                 ELSE [op EXCEPT !.calls[g].pc =
                         IF divmod(c.in.ti.Size, BLOCKSIZE)[2] > 0
                           THEN "pad" ELSE "load2"]
  IN  /\ At(g, "AddFile", {"copy"})
      /\ copied(CopyN(tf.fileObj, c.in.fileobj.bytes, c.in.ti.Size))
      /\ UNCHANGED <<goarch, status, hist>>

\* tf.fileObj.Write(make([]byte, BLOCKSIZE-remainder))
AddFilePad(g) ==
  LET c == op.calls[g]
      padded(w) ==
        /\ tf' = [tf EXCEPT !.fileObj = w.f]
        /\ op' = IF w.err # "nil"
                   THEN [op EXCEPT !.calls[g].pc = "done",
                                   !.calls[g].ret = "err"]
                 ELSE [op EXCEPT !.calls[g].pc = "load2"]
  IN  /\ At(g, "AddFile", {"pad"})
      /\ padded(Write(tf.fileObj,
                      Zeros(BLOCKSIZE - divmod(c.in.ti.Size, BLOCKSIZE)[2])))
      /\ UNCHANGED <<goarch, status, hist>>

\* tf.members = append(tf.members, ti), the load of tf.members.
LoadMembers(g) ==
  /\ At(g, "AddFile", {"loadm"})
  /\ op' = [op EXCEPT !.calls[g].mem = tf.members,
                      !.calls[g].pc = "storem"]
  /\ UNCHANGED <<goarch, tf, status, hist>>

\* tf.members = append(tf.members, ti), the store, and return nil.
StoreMembers(g) ==
  LET c == op.calls[g]
  IN  /\ At(g, "AddFile", {"storem"})
      /\ tf' = [tf EXCEPT !.members = Append(c.mem, c.in.ti)]
      /\ op' = [op EXCEPT !.calls[g].pc = "done", !.calls[g].ret = "ok"]
      /\ UNCHANGED <<goarch, status, hist>>

\* tf.mu.Lock() of GetMembers returns once mu is free.
GetMembersLock(g) ==
  /\ At(g, "GetMembers", {"start"})
  /\ ~tf.mu
  /\ tf' = [tf EXCEPT !.mu = TRUE]
  /\ op' = [op EXCEPT !.calls[g].pc = "locked"]
  /\ UNCHANGED <<goarch, status, hist>>

\* GetMembers from the Lock it has taken to its deferred Unlock.
GetMembersScan(g) ==
  LET returned(r) ==
        /\ tf' = r.h
        /\ status' = IF r.loops THEN "looping" ELSE status
        /\ op' = [op EXCEPT !.calls[g].pc = "done",
                            !.calls[g].ret = r.members]
  IN  /\ At(g, "GetMembers", {"locked"})
      /\ returned(GetMembers([tf EXCEPT !.mu = FALSE]))
      /\ UNCHANGED <<goarch, hist>>

StepRace ==
  \E g \in Goroutines :
    \/ AddFileHeader(g)
    \/ LoadOffset(g)
    \/ StoreOffset(g)
    \/ AddFileCopy(g)
    \/ AddFilePad(g)
    \/ LoadMembers(g)
    \/ StoreMembers(g)
    \/ GetMembersLock(g)
    \/ GetMembersScan(g)

SpecRace == InitRace /\ [][StepRace]_vars

\* ------------------------------------------------------------------------
\* Properties
\* ------------------------------------------------------------------------
\* size rounded up to whole blocks
PaddedSize(size) == BLOCKSIZE * ((size + BLOCKSIZE - 1) \div BLOCKSIZE)

\* The name a member has in memory: a directory's without its final '/'.
MemberName(ti) == IF IsDir(ti) THEN TrimSuffixSlash(ti.Name) ELSE ti.Name

\* A directory without payload, or a regular file with a payload of Size
\* bytes.
WellFormedAdd(in) ==
  \/ IsDir(in.ti) /\ in.fileobj = Nil
  \/ /\ IsReg(in.ti)
     /\ in.fileobj # Nil
     /\ Len(in.fileobj.bytes) = in.ti.Size

\* C1: every AddFile of a regular file with a payload of its Size, or of a
\* directory, to an open archive in mode "w" succeeds, and once the archive
\* is closed and its bytes are opened in mode "r", GetMembers returns one
\* record per added member, in insertion order, with the member's name
\* (a directory's without the final '/') and Size.
C1_WrittenMembersAreListed ==
  /\ (op.name = "AddFile" /\ ~op.wasClosed /\ WellFormedAdd(op.in))
       => op.ret = "ok"
  /\ ( /\ op.name = "GetMembers"
       /\ hist.reopened
       /\ hist.wrote = "w"
       /\ \A i \in 1..Len(hist.adds) :
            WellFormedAdd(hist.adds[i].in) /\ ~hist.adds[i].wasClosed )
       => /\ op.ret = "ok"
          /\ Len(op.members) = Len(hist.adds)
          /\ \A i \in 1..Len(hist.adds) :
               /\ op.members[i].Name = MemberName(hist.adds[i].in.ti)
               /\ op.members[i].Size = hist.adds[i].in.ti.Size

\* C2: in mode "r" every indexed member starts where the payload of the
\* member before it, rounded up to whole blocks, ends.
C2_NextSkipsPayload ==
  tf.mode = "r" =>
    \A i \in 1..(Len(tf.members) - 1) :
      tf.members[i + 1].Offset =
        tf.members[i].OffsetData + PaddedSize(tf.members[i].Size)

\* C3: GetMember(name) returns the last indexed member whose Name is name,
\* and reports not-found only when there is none.
C3_GetMemberReturnsLast ==
  (op.name = "GetMember" /\ ~op.wasClosed) =>
    LET hits == {i \in 1..Len(tf.members) : tf.members[i].Name = op.arg}
    IN  /\ op.ret \in {"ok", "err"}
        /\ op.ret = "err" <=> hits = {}
        /\ hits # {} =>
             op.ti = tf.members[CHOOSE i \in hits : \A j \in hits : j <= i]

\* C4: a Close on a closed handle of mode "a", "w" or "x" returns nil and
\* changes nothing: no byte is written, the length of the output and the
\* handle stay as the first Close left them.
C4_SecondCloseIsNoOp ==
  [][(op'.name = "Close" /\ tf.closed /\ tf.mode \in {"a", "w", "x"})
       => (op'.ret = "nil" /\ tf' = tf)]_vars

\* A second Close on an archive written in mode "w": the output is one
\* record long.
C4_Witness ==
  /\ op.name = "Close"
  /\ op.wasClosed
  /\ hist.closes = 2
  /\ tf.mode = "w"
  /\ hist.adds # <<>>
  /\ Len(tf.fileObj.data) = op.len

\* The first Close of a handle in a writing mode on which only AddFile has
\* been called, each call successfully.
FirstCloseAfterAdds ==
  /\ op.name = "Close"
  /\ ~op.wasClosed
  /\ tf.mode \in {"a", "w", "x"}
  /\ ~hist.addFailed
  /\ ~hist.scanned
  /\ op.ret = "nil"

\* The next multiple of RECORDSIZE at or after n.
RecordEnd(n) == RECORDSIZE * ((n + RECORDSIZE - 1) \div RECORDSIZE)

C6_ClosedIsTerminal ==
  [][(tf.closed /\ op'.name \in {"AddFile", "Next", "GetMembers", "GetMember"})
       => /\ op'.ret = "err"
          /\ tf'.fileObj.data = tf.fileObj.data
          /\ tf'.fileObj.pos = tf.fileObj.pos
          /\ tf'.offset = tf.offset
          /\ tf'.members = tf.members]_vars

\* C7: a Next that scans from a position holding exactly two zero blocks
\* up to the end of the stream returns nil, nil and adds nothing to the
\* member index; the scan position stays, so this holds for every later
\* Next as well.
C7_TrailerEndsScan ==
  [][(op'.name = "Next" /\ op'.atTrailer /\ ~op'.wasClosed)
       => /\ op'.ret = "nil"
          /\ tf'.members = tf.members
          /\ tf'.offset = tf.offset]_vars

\* Name and Linkname fit their header fields.
WithinLimits(ti) ==
  Len(ti.Name) <= LENGTH_NAME /\ Len(ti.Linkname) <= LENGTH_LINK

\* C8: for a record whose Name and Linkname are at most 100 bytes, ToBuf
\* returns bytes in each format, and FromBuf of them gives back Name, Mode,
\* UID, GID, Size, Mtime, Type, Linkname, Uname, Gname, and DevMajor and
\* DevMinor for the device types.
C8_RoundTrip ==
  (op.name = "ToBuf" /\ WithinLimits(op.ti)) =>
    /\ op.ret = "ok"
    /\ op.dec.k = "ok"
    /\ op.dec.v.Name = MemberName(op.ti)
    /\ op.dec.v.Mode = op.ti.Mode
    /\ op.dec.v.UID = op.ti.UID
    /\ op.dec.v.GID = op.ti.GID
    /\ op.dec.v.Size = op.ti.Size
    /\ op.dec.v.Mtime = op.ti.Mtime
    /\ op.dec.v.Type = op.ti.Type
    /\ op.dec.v.Linkname = op.ti.Linkname
    /\ op.dec.v.Uname = op.ti.Uname
    /\ op.dec.v.Gname = op.ti.Gname
    /\ op.ti.Type \in {CHRTYPE, BLKTYPE} =>
         /\ op.dec.v.DevMajor = op.ti.DevMajor
         /\ op.dec.v.DevMinor = op.ti.DevMinor

\* The sum of all bytes of buf but those of the checksum field, added up
\* byte by byte from the two sides of the field.
RECURSIVE SumRange(_, _, _)
SumRange(buf, lo, hi) ==
  IF lo > hi THEN 0
  ELSE IF lo = hi THEN buf[lo]
  ELSE SumRange(buf, lo, (lo + hi) \div 2)
       + SumRange(buf, (lo + hi) \div 2 + 1, hi)

\* C9: the checksum field of a block FromBuf accepts holds 256 plus the sum
\* of the bytes outside buf[148:156], and the block with one byte outside
\* that field changed is rejected with InvalidHeaderError.
C9_ChangedByteIsRejected ==
  /\ (op.name = "call" /\ op.fn = "FromBuf" /\ FromBuf(op.buf).k = "ok")
       => nti(Slice(op.buf, 148, 156)).v =
            256 + SumRange(op.buf, 1, 148) + SumRange(op.buf, 157, BLOCKSIZE)
  /\ (op.name = "FromBuf" /\ op.accepted)
       => op.ret = Err("InvalidHeaderError")

\* The type flag, the byte next to the checksum field, changed in an
\* accepted block.
C9_Witness ==
  /\ op.name = "FromBuf"
  /\ op.accepted
  /\ op.i = 157
  /\ op.ret = Err("InvalidHeaderError")

\* "././@LongLink"
LongLink == <<46, 47, 46, 47, 64, 76, 111, 110, 103, 76, 105, 110, 107>>

\* buf starts with a ././@LongLink header of type typ for the string s, its
\* payload s and a NUL filled up to whole blocks.
StartsWithLong(buf, typ, s) ==
  /\ Len(buf) >= BLOCKSIZE + PaddedSize(Len(s) + 1)
  /\ nts(Slice(buf, 0, 100)) = LongLink
  /\ Slice(buf, 156, 157) = typ
  /\ nti(Slice(buf, 124, 136)) = Ok(Len(s) + 1)
  /\ Slice(buf, BLOCKSIZE, BLOCKSIZE + PaddedSize(Len(s) + 1))
       = s \o Zeros(PaddedSize(Len(s) + 1) - Len(s))

\* C10: in GNU format a Name longer than 100 bytes gives a ././@LongLink
\* header of type 'L' with size len(Name)+1, the name and a NUL filled up
\* to whole blocks, then the primary header with the first 100 bytes of the
\* name; a Linkname longer than 100 bytes gives the same with type 'K';
\* the output is a whole number of blocks.
C10_GnuLongName ==
  (op.name = "ToBuf" /\ op.format = GNU_FORMAT /\ ~WithinLimits(op.ti)) =>
    LET s == IF Len(op.ti.Name) > LENGTH_NAME THEN op.ti.Name
             ELSE op.ti.Linkname
        typ == IF Len(op.ti.Name) > LENGTH_NAME THEN GNUTYPE_LONGNAME
               ELSE GNUTYPE_LONGLINK
        at == IF Len(op.ti.Name) > LENGTH_NAME THEN 0 ELSE 157
        primary == BLOCKSIZE + PaddedSize(Len(s) + 1)
    IN  /\ op.ret = "ok"
        /\ Len(op.buf) = primary + BLOCKSIZE
        /\ StartsWithLong(op.buf, typ, s)
        /\ Slice(op.buf, primary + at, primary + at + 100) = SubSeq(s, 1, 100)

\* Whether name can be cut at one of its '/' into a prefix of at most
\* LENGTH_PREFIX bytes and a rest of at most LENGTH_NAME bytes.
Splittable(name) ==
  \E i \in 1..Len(name) :
    name[i] = Slash /\ i - 1 <= LENGTH_PREFIX /\ Len(name) - i <= LENGTH_NAME

\* C11: in USTAR format a record whose Name is longer than 100 bytes gives
\* one header block whose prefix field (bytes 345..499, at most 155 bytes)
\* and name field (bytes 0..99) joined by '/' are the Name, or the error
\* "name is too long" when the Name has no '/' to split at; a Linkname
\* longer than 100 bytes is always an error.
C11_UstarSplitsOrRejects ==
  (op.name = "ToBuf" /\ op.format = USTAR_FORMAT) =>
    /\ Len(op.ti.Linkname) > LENGTH_LINK => op.ret = "err"
    /\ (Len(op.ti.Linkname) <= LENGTH_LINK /\ Len(op.ti.Name) > LENGTH_NAME) =>
         IF Splittable(op.ti.Name)
           THEN /\ op.ret = "ok"
                /\ Len(op.buf) = BLOCKSIZE
                /\ nts(Slice(op.buf, 345, 500)) \o <<Slash>>
                     \o nts(Slice(op.buf, 0, 100)) = op.ti.Name
           ELSE op.ret = "err" /\ op.e = "name is too long"

\* Whether rec occurs in buf.
Occurs(rec, buf) ==
  \E i \in 1..(Len(buf) - Len(rec) + 1) :
    SubSeq(buf, i, i + Len(rec) - 1) = rec

\* uid, gid and size: the PAX key, the record's value, and the Go slice
\* bounds and width of the field in the primary header.
OverflowFields(ti) ==
  <<[key |-> "uid", val |-> ti.UID, at |-> 108, to |-> 116, digits |-> 8],
    [key |-> "gid", val |-> ti.GID, at |-> 116, to |-> 124, digits |-> 8],
    [key |-> "size", val |-> ti.Size, at |-> 124, to |-> 136, digits |-> 12]>>

\* One of uid, gid, size is negative or needs more octal digits than its
\* field holds.
HasOverflow(ti) ==
  \E i \in 1..3 :
    ~FitsOctal(OverflowFields(ti)[i].val, OverflowFields(ti)[i].digits)

\* C12: in PAX format ToBuf returns, for a record with a uid, gid or size
\* that does not fit its octal field, a ././@PaxHeader block of type 'x'
\* whose records hold the value as decimal text under the key uid, gid or
\* size, followed by the primary header whose field of that name encodes 0.
C12_PaxOverflowGoesToRecords ==
  (op.name = "ToBuf" /\ op.format = PAX_FORMAT /\ HasOverflow(op.ti)) =>
    /\ op.ret = "ok"
    /\ Len(op.buf) >= 3 * BLOCKSIZE
    /\ Slice(op.buf, 156, 157) = XHDTYPE
    /\ \A i \in 1..3 :
         LET f == OverflowFields(op.ti)[i]
             primary == Len(op.buf) - BLOCKSIZE
         IN  ~FitsOctal(f.val, f.digits) =>
               /\ Occurs(PaxRecord(f.key, Itoa(f.val)),
                         Slice(op.buf, BLOCKSIZE, primary))
               /\ nti(Slice(op.buf, primary + f.at, primary + f.to)) = Ok(0)

\* The slots from the i-th on, up to the first (0, 0).
RECURSIVE PairsUntilZero(_, _)
PairsUntilZero(slots, i) ==
  IF i > Len(slots) \/ slots[i] = <<0, 0>> THEN <<>>
  ELSE <<slots[i]>> \o PairsUntilZero(slots, i + 1)

\* C13: FromBuf on a type 'S' block reads the (offset, numbytes) pairs
\* stored from byte 386 in order, at most four, up to the first (0, 0), and
\* when there is a pair or the is-extended byte is set, Sparse is those
\* pairs and Size is the size stored in bytes 483..494.
C13_SparseDecodes ==
  op.name = "FromBufSparse" =>
    LET pairs == PairsUntilZero(op.layout.slots, 1)
    IN  /\ op.ret.k = "ok"
        /\ op.ret.v.Type = GNUTYPE_SPARSE
        /\ (pairs # <<>> \/ op.layout.ext # 0) =>
             /\ op.ret.v.Sparse = pairs
             /\ op.ret.v.Size = op.layout.real

\* The pairs (0, 1024), (1047552, 1024) and the size 1048576 decoded.
C13_Witness ==
  /\ op.name = "FromBufSparse"
  /\ op.ret.k = "ok"
  /\ op.ret.v.Sparse = <<<<0, 1024>>, <<1047552, 1024>>>>
  /\ op.ret.v.Size = 1048576

\* The types of the headers that carry a name, a link name or attributes
\* for the header after them.
ContinuationTypes == {GNUTYPE_LONGNAME, GNUTYPE_LONGLINK, XHDTYPE}

\* C14: in mode "r" no header of type 'L', 'K' or 'x' is yielded by Next,
\* pre-read as first member or put in the member index; the archive that
\* holds one member behind a type 'L' header lists as that one member with
\* the carried name.
C14_ContinuationsAreNotMembers ==
  tf.mode = "r" =>
    /\ \A i \in 1..Len(tf.members) :
         tf.members[i].Type \notin ContinuationTypes
    /\ tf.firstMember # Nil => tf.firstMember.Type \notin ContinuationTypes
    /\ (op.name = "Next" /\ op.ret = "ok") =>
         op.ti.Type \notin ContinuationTypes
    /\ (op.name = "GetMembers" /\ op.ret = "ok" /\ ~op.wasClosed
        /\ tf.fileObj.data = ArchiveLong) =>
         /\ Len(op.members) = 1
         /\ op.members[1].Name = LongName

\* An AddFile call for a regular file of non-zero Size without fileobj.
NoSource(in) == in.fileobj = Nil /\ IsReg(in.ti) /\ in.ti.Size # 0

\* C15: AddFile without fileobj for a regular file of non-zero Size returns
\* an error and leaves the handle as it is: the stream's content and cursor,
\* the offset and the member index.
C15_NoSourceWritesNothing ==
  [][(op'.name = "AddFile" /\ NoSource(op'.in))
       => (op'.ret = "err" /\ tf' = tf)]_vars

\* Such a call rejected on a handle that has a member in its index.
C15_Witness ==
  /\ op.name = "AddFile"
  /\ NoSource(op.in)
  /\ op.ret = "err"
  /\ ~op.wasClosed
  /\ Len(tf.members) = 1
  /\ hist.adds # <<>>

\* C16: after every completed operation on a handle (open, AddFile, Next,
\* GetMembers, Close), whether it succeeded, returned the end sentinel or
\* failed, the handle's offset equals the cursor of the underlying stream.
\* No operation of the model seeks for payload extraction, and a call that
\* panicked or never returns has not completed.
Completed ==
  /\ status \in {"running", "openfailed"}
  /\ op.name \in {"open", "Reopen", "AddFile", "Next", "GetMembers", "Close"}

C16_OffsetIsCursor ==
  (Completed /\ tf.fileObj.open) => tf.offset = tell(tf.fileObj)

\* The handle after the AddFile calls of goroutines order[1] and order[2],
\* one after the other, on the handle as it was opened.
SeriallyAdded(order) ==
  LET a == op.calls[order[1]].in
      b == op.calls[order[2]].in
      second(r) == AddFile(r.h, b.ti, b.fileobj, goarch).h
      first(o) == second(AddFile(o.h, a.ti, a.fileobj, goarch))
  IN  first(NewTarFile(tf.mode, FileOf(<<>>), tf.extFileObj, tf.format,
                       EmptyMap, FALSE, goarch))

AllReturned(fn) ==
  /\ op.name = "go"
  /\ status = "running"
  /\ \A g \in Goroutines : op.calls[g].fn = fn /\ op.calls[g].pc = "done"

\* C17: AddFile excludes the other operations on its handle: when two
\* goroutines have called AddFile on a handle opened for writing, the stream
\* is what the two calls give in one of the two serial orders, both records
\* are in the index, and offset is the number of bytes written.
C17_ConcurrentAddFileIsSerial ==
  AllReturned("AddFile") =>
    /\ \E o \in {<<1, 2>>, <<2, 1>>} :
         tf.fileObj.data = SeriallyAdded(o).fileObj.data
    /\ \E o \in {<<1, 2>>, <<2, 1>>} : tf.members = SeriallyAdded(o).members
    /\ tf.offset = Len(tf.fileObj.data)

\* The members stored in data from pos on, as a reader that skips each
\* payload finds them: name and header offset.
RECURSIVE StoredMembers(_, _)
StoredMembers(data, pos) ==
  LET listed(r) ==
        IF r.k # "ok" THEN <<>>
        ELSE <<[Name |-> r.v.Name, Offset |-> pos]>>
             \o StoredMembers(data, pos + BLOCKSIZE + PaddedSize(r.v.Size))
  IN  IF pos + BLOCKSIZE > Len(data) THEN <<>>
      ELSE listed(FromBuf(SubSeq(data, pos + 1, pos + BLOCKSIZE)))

Listing(members) ==
  [i \in 1..Len(members) |->
     [Name |-> members[i].Name, Offset |-> members[i].Offset]]

\* C18: when the goroutines that called GetMembers on a handle opened for
\* reading have all returned, every call has returned the complete member
\* list in archive order, and the index holds each member once.
C18_ConcurrentGetMembersComplete ==
  AllReturned("GetMembers") =>
    /\ \A g \in Goroutines :
         Listing(op.calls[g].ret) = StoredMembers(tf.fileObj.data, 0)
    /\ Listing(tf.members) = StoredMembers(tf.fileObj.data, 0)

\* C19: a block at archive offset 0 that is truncated or fails checksum or
\* numeric-field validation makes reading fail with ReadError, whatever the
\* IgnoreZeros setting: opening such a stream in mode "r" fails.
C19_BadFirstBlockIsFatal ==
  (op.name = "open" /\ tf.mode = "r" /\ tf.fileObj.data \in BadFirstBlocks)
    => status = "openfailed"

\* C20: a read of zero bytes where a header is expected is an empty header
\* and not the end of the archive: opening a zero-length stream in mode "r"
\* fails with ReadError.
C20_EmptyStreamIsReadError ==
  (op.name = "open" /\ tf.mode = "r" /\ tf.fileObj.data = <<>>)
    => status = "openfailed"

\* C23: on a handle used by one goroutine no public operation locks mu
\* while its own call chain holds it: GetMember returns, with a member or
\* an error, and the goroutine never waits for itself.
C23_GetMemberReturns ==
  /\ status # "deadlocked"
  /\ op.name = "GetMember" => op.ret \in {"ok", "err"}

\* C24: ToBuf never stops with a runtime fault: for a record as NewTarInfo
\* makes it, with a name of at most 100 bytes, it returns one block of 512
\* bytes and a nil error in each format; for every other record it returns
\* bytes whose length is a multiple of 512 or an error.
C24_ToBufNeverPanics ==
  op.name = "ToBuf" =>
    /\ op.ret \in {"ok", "err"}
    /\ op.ret = "ok" => Len(op.buf) % BLOCKSIZE = 0
    /\ (op.ti = NewTarInfo(op.ti.Name) /\ Len(op.ti.Name) <= LENGTH_NAME) =>
         (op.ret = "ok" /\ Len(op.buf) = BLOCKSIZE)

\* C25: with IgnoreZeros enabled Next terminates on every finite stream:
\* no call on such a handle goes round the loop of next for ever.
C25_IgnoreZerosTerminates == tf.ignoreZeros => status # "looping"

\* Whether data holds a whole all-zero block at offset at.
ZeroBlockAt(data, at) ==
  /\ at + BLOCKSIZE <= Len(data)
  /\ \A i \in (at + 1)..(at + BLOCKSIZE) : data[i] = NUL

\* C26: with IgnoreZeros disabled, a Next that decodes a block returns the
\* no-more-members sentinel without error only at an all-zero block or at
\* the end of the stream; any other block that is not a header is an error.
C26_SentinelOnlyAtEnd ==
  (op.name = "Next" /\ ~tf.ignoreZeros /\ op.decoded /\ op.ret = "nil") =>
    \/ op.at >= Len(tf.fileObj.data)
    \/ ZeroBlockAt(tf.fileObj.data, op.at)

\* C27: an AddFile that returns an error after it has written to the stream
\* leaves the member index as it was and offset at the stream's cursor, and
\* the first Close after a failed AddFile on a handle opened in mode "w" or
\* "x" leaves a stream whose length is a multiple of RECORDSIZE.
C27_FailedAddKeepsOffset ==
  [][/\ (op'.name = "AddFile" /\ op'.ret = "err"
          /\ tf'.fileObj # tf.fileObj) =>
           (tf'.members = tf.members /\ tf'.offset = tell(tf'.fileObj))
     /\ (op'.name = "Close" /\ op'.ret = "nil" /\ hist.addFailed
          /\ ~tf.closed /\ tf.mode \in {"w", "x"}) =>
           Len(tf'.fileObj.data) % RECORDSIZE = 0]_vars

\* C28: when opening fails, the stream holds the bytes it was given.
C28_FailedOpenWritesNothing ==
  (op.name = "open" /\ status = "openfailed") =>
    tf.fileObj.data = hist.given

\* The offset after the last member stored in data from pos on, for a
\* reader that skips each payload.
RECURSIVE MembersEnd(_, _)
MembersEnd(data, pos) ==
  LET after(r) ==
        IF r.k # "ok" THEN pos
        ELSE MembersEnd(data, pos + BLOCKSIZE + PaddedSize(r.v.Size))
  IN  IF pos + BLOCKSIZE > Len(data) THEN pos
      ELSE after(FromBuf(SubSeq(data, pos + 1, pos + BLOCKSIZE)))

\* data is members followed by an all-zero block.
WellFormed(data) ==
  /\ MembersEnd(data, 0) > 0
  /\ ZeroBlockAt(data, MembersEnd(data, 0))

\* C29: opening a well-formed archive in mode "a" succeeds with every
\* member in the index and with offset, and the cursor, at the first
\* end-of-archive zero block.
C29_AppendScansToTrailer ==
  (op.name = "open" /\ tf.mode = "a" /\ WellFormed(hist.given)) =>
    /\ status = "running"
    /\ Listing(tf.members) = StoredMembers(hist.given, 0)
    /\ tf.offset = MembersEnd(hist.given, 0)
    /\ tell(tf.fileObj) = tf.offset

C21_ExtractAllGoesOn ==
  (op.name = "ExtractAll" /\ op.ret = "ok" /\ ~op.wasClosed) =>
    /\ op.tried = Len(tf.members)
    /\ op.err # "nil" =>
         \E i \in 1..Len(tf.members) : op.failed = tf.members[i].Name
    /\ \A i \in 1..Len(tf.members) :
         (IsReg(tf.members[i]) /\ tf.members[i].Name \notin op.dirs
          /\ tf.members[i].OffsetData + tf.members[i].Size
                <= Len(tf.fileObj.data)) =>
           \E j \in 1..Len(op.made) : op.made[j].name = tf.members[i].Name

\* What the attempt with comptype c reads from data.
Attempted(c, data) ==
  IF c = "tar" THEN data
  ELSE IF HasHeader(c, data) THEN Decoded(c, data)
  ELSE <<>>

\* The attempt with comptype c finds a first header in data, or the zero
\* block of an archive without members.
FirstHeaderParses(c, data) ==
  /\ Len(Attempted(c, data)) >= BLOCKSIZE
  /\ \/ FromBuf(SubSeq(Attempted(c, data), 1, BLOCKSIZE)).k = "ok"
     \/ ZeroBlockAt(Attempted(c, data), 0)

\* C22: Open in mode "r" tries tar, gz, bz2 and xz in this order; it returns
\* the handle of the first attempt whose first header parses and tries none
\* after it; each attempt on a caller's stream starts at position 0; when no
\* attempt finds a header it returns ReadError.
C22_OpenProbesInOrder ==
  op.name = "Open" =>
    /\ op.ret \in {"ok", "err"}
    /\ \A i \in 1..Len(op.starts) : op.starts[i] = 0
    /\ op.ret = "ok" =>
         /\ FirstHeaderParses(TryOrder[op.tried], op.data)
         /\ \A i \in 1..(op.tried - 1) :
              ~FirstHeaderParses(TryOrder[i], op.data)
    /\ op.ret = "err" =>
         /\ op.err = "ReadError"
         /\ op.tried = Len(TryOrder)
         /\ \A i \in 1..Len(TryOrder) :
              ~FirstHeaderParses(TryOrder[i], op.data)

\* What a call of Next on the handle h gives the caller.
NextGives(h) ==
  LET given(n) == [ti |-> n.ti, err |-> n.err, loops |-> n.loops,
                   blocked |-> n.blocked]
  IN  given(Next(h))

\* The payload of member in the stream the handle was opened on.
PayloadOf(member) ==
  SubSeq(hist.given, member.OffsetData + 1, member.OffsetData + member.Size)

\* C31: in mode "r" a call of Extract does not change what the following
\* Next returns, and a regular file extracted without error holds exactly
\* the Size bytes of the stream that start at the member's OffsetData.
C31_ExtractKeepsIteration ==
  [][op'.name = "Extract" =>
       /\ NextGives(tf') = NextGives(tf)
       /\ (op'.err = "nil" /\ IsReg(op'.member)) =>
            /\ Len(op'.made) = 1
            /\ op'.made[1].bytes = PayloadOf(op'.member)
            /\ Len(op'.made[1].bytes) = op'.member.Size]_vars

\* Extract has copied a payload and left the cursor away from offset, and
\* the following Next returns a member.
C31_Witness ==
  /\ op.name = "Extract"
  /\ op.err = "nil"
  /\ op.ret = "ok"
  /\ Len(op.made) = 1
  /\ Len(op.made[1].bytes) > 0
  /\ tell(tf.fileObj) # tf.offset
  /\ NextGives(tf).ti # Nil

\* C32: the index holds its own copy of each record AddFile appended: what
\* GetMembers returns for the k-th added member is the record as it was
\* passed to AddFile, whatever the caller has assigned to its record since.
C32_IndexHoldsCopies ==
  op.name = "GetMembers" =>
    /\ Len(op.members) = Len(hist.adds)
    /\ \A k \in 1..Len(hist.adds) : op.members[k] = hist.adds[k].in.ti

\* 0 <= n < 8^(digits-1).  8^11 is above every integer of TLC.
InOctalRange(n, digits) ==
  /\ n >= 0
  /\ digits - 1 >= 11 \/ n < Pow(8, digits - 1)

\* The field holds digits-1 octal digits and a NUL, and the digits are n.
IsOctalField(buf, n, digits) ==
  /\ Len(buf) = digits
  /\ buf[digits] = NUL
  /\ \A i \in 1..(digits - 1) : buf[i] \in 48..55
  /\ OctalValue(SubSeq(buf, 1, digits - 1), 0) = n

\* C33: itn returns exactly digits bytes or an error; for 0 <= n <
\* 8^(digits-1) the bytes are digits-1 zero-padded octal digits and a NUL,
\* which nti decodes to n; for n outside that range and a format other than
\* GNU it returns the overflow error and no bytes.
C33_ItnOctalOrOverflow ==
  op.name = "itn" =>
    /\ op.out.k \in {"ok", "err"}
    /\ op.out.k = "ok" => Len(op.out.v) = op.digits
    /\ InOctalRange(op.n, op.digits) =>
         /\ op.out.k = "ok"
         /\ IsOctalField(op.out.v, op.n, op.digits)
         /\ op.back = Ok(op.n)
    /\ (~InOctalRange(op.n, op.digits) /\ op.format # GNU_FORMAT) =>
         op.out = Err("overflow in number field")

\* itn has been given 8^7 for an 8-byte field, the least value that does
\* not fit, in a format other than GNU.
C33_Witness ==
  /\ op.name = "itn"
  /\ op.n = 2097152
  /\ op.digits = 8
  /\ op.format = USTAR_FORMAT
  /\ op.out.k = "err"

\* C34: under GNU format, for the widths 8 and 12 and every n that does
\* not fit the octal form (all such n that TLC holds lie within
\* the base-256 range of both widths), itn returns digits bytes of which
\* the first is 0x80 for n >= 0 and 0xFF for n < 0, and nti decodes them
\* to n.
C34_GnuBase256RoundTrip ==
  (op.name = "itn" /\ op.format = GNU_FORMAT
     /\ ~InOctalRange(op.n, op.digits)) =>
    /\ op.out.k = "ok"
    /\ Len(op.out.v) = op.digits
    /\ op.out.v[1] = IF op.n >= 0 THEN 128 ELSE 255
    /\ op.back = Ok(op.n)

\* C35: a record that FromBuf returns with type directory, a legacy
\* regular-type header with a name ending in '/' included, has a Name that
\* does not end in '/', with or without a prefix; GetInfo gives a
\* directory's name with one '/' at its end, adding none when there is one;
\* and a directory name without a trailing '/' is decoded unchanged.
C35_DirectoryNamesCanonical ==
  op.name = "FromBufNamed" =>
    /\ op.ret.k = "ok"
    /\ (op.type = AREGTYPE /\ HasSuffixSlash(op.ti)) =>
         op.ret.v.Type = DIRTYPE
    /\ op.ret.v.Type = DIRTYPE => ~HasSuffixSlash(op.ret.v.Name)
    /\ op.type = DIRTYPE =>
         op.info.name.v = IF HasSuffixSlash(op.ti) THEN op.ti
                          ELSE Append(op.ti, Slash)
    /\ (op.type = DIRTYPE /\ ~HasSuffixSlash(op.ti) /\ op.prefix = <<>>) =>
         op.ret.v.Name = op.ti

\* rec is "<len> <key>=<value>\n" and <len> is the length of rec.
IsPaxRecord(rec, key, value) ==
  rec = Itoa(Len(rec)) \o <<32>> \o KeyBytes(key) \o <<61>> \o value \o <<10>>

\* C36: createPaxGenericHeader returns, and the record it emits for a key
\* and a value is "<len> <key>=<value>" and a newline, where <len> in
\* decimal is the length in bytes of the whole record; the loop that
\* computes <len> ends.
C36_PaxRecordCountsItself ==
  op.name = "createPaxGenericHeader" =>
    /\ op.ret.k = "ok"
    /\ \E from \in {BLOCKSIZE, BLOCKSIZE + Len(HdrCharsetBinary)},
           n \in 1..(Len(op.value) + 16) :
         /\ from + n <= Len(op.ret.v)
         /\ from = BLOCKSIZE + Len(HdrCharsetBinary) =>
              SubSeq(op.ret.v, BLOCKSIZE + 1, from) = HdrCharsetBinary
         /\ IsPaxRecord(SubSeq(op.ret.v, from + 1, from + n), op.key,
                        op.value)
         /\ \A i \in (from + n + 1)..Len(op.ret.v) : op.ret.v[i] = NUL

\* The string fails portable encoding in a field of the given width.
NotPortable(str, width) ==
  \/ Len(str) > width
  \/ \E i \in 1..Len(str) : str[i] >= 128

\* All four string fields of ti are short ASCII text, uid, gid, size and
\* mtime fit their fields, and ti has no extended headers of its own.
PlainRecord(ti) ==
  /\ \A i \in 1..Len(PaxStringFields) :
       ~NotPortable(GetInfo(ti)[PaxStringFields[i].name].v,
                    PaxStringFields[i].length)
  /\ \A n \in {ti.UID, ti.GID} : 0 <= n /\ n < TooBigForOctal
  /\ ti.Size >= 0
  /\ ti.Mtime.sec >= 0
  /\ ti.PaxHeaders = EmptyMap

\* C37: under PAX format a string field is in the extended-header mapping
\* exactly when it holds a byte outside ASCII or is longer than its field;
\* a record of short ASCII strings (all-digit ones included) and fitting
\* numbers without extended headers is written as one 512-byte block; a
\* short name with a byte outside ASCII is in the mapping under path.
C37_PaxMovesUnportableStrings ==
  (op.name = "ToBuf" /\ op.format = PAX_FORMAT) =>
    /\ \A i \in 1..Len(PaxStringFields) :
         (PaxStringFields[i].hname \in DOMAIN op.pax)
           <=> NotPortable(GetInfo(op.ti)[PaxStringFields[i].name].v,
                           PaxStringFields[i].length)
    /\ PlainRecord(op.ti) =>
         /\ op.ret = "ok"
         /\ Len(op.buf) = BLOCKSIZE
    /\ NotPortable(op.ti.Name, 0) /\ Len(op.ti.Name) <= LENGTH_NAME =>
         /\ "path" \in DOMAIN op.pax
         /\ op.pax["path"] = op.ti.Name

\* C38: GetMember ignores a '/' at the end of the name asked for: when a
\* member named "data" is in the index, GetMember("data/") returns it.
C38_TrailingSlashIgnored ==
  (/\ op.name = "GetMember"
   /\ op.arg = DataDir
   /\ \E i \in 1..Len(tf.members) : tf.members[i].Name = Data) =>
    /\ op.ret = "ok"
    /\ op.ti.Name = Data
====
